---- MODULE Spec2Model ----
(***************************************************************************)
(* A model of the tinyvg-rs codec: the VarInt and Unit primitives          *)
(* (src/src/common.rs), the header and color table parsers                 *)
(* (src/src/header.rs, src/src/color_table.rs), the command stream decoder *)
(* (src/src/commands.rs, src/src/lib.rs) and the encoder                   *)
(* (src/src/svg_to_tvg/svg_to_tvg.rs).                                     *)
(*                                                                         *)
(* Bytes are integers 0..255.  A u64 is a sequence of 64 bits, least       *)
(* significant first, so that shifts and masks are computed as the code    *)
(* computes them and values up to 2^64-1 are represented exactly.          *)
(***************************************************************************)
EXTENDS Integers, Sequences, FiniteSets, TLC

VARIABLES
    overflow_checks, \* the build: TRUE = arithmetic overflow panics (debug)
    data,            \* from_bytes: the input byte slice
    cursor,          \* from_bytes: position of the read cursor
    pc,              \* position of the running operation
    header,          \* from_bytes: the parsed TinyVgHeader
    color_table,     \* from_bytes: the parsed ColorTable
    draw_commands,   \* parse_draw_commands: the commands pushed so far
    tag,             \* parse_draw_commands: the command and style of the tag read
    result,          \* what the reading operation returned
    model,           \* the document handed to the writers
    writer,          \* the writer's Vec<u8>
    wresult,         \* what the writing operation returned
    arg              \* the arguments of the call in progress: of a primitive (VarInt,
                     \* Unit), or the commands write_draw_commands has still to write

vars == <<overflow_checks, data, cursor, pc, header, color_table,
          draw_commands, tag, result, model, writer, wresult, arg>>

None == "None"

(***************************************************************************)
(* u64 values as 64 bits, least significant first.                         *)
(***************************************************************************)
Width64 == 64

Zero64 == [i \in 1..Width64 |-> 0]

AllOnes64 == [i \in 1..Width64 |-> 1]

\* The u64 whose value is the natural number n (n < 2^31).
FromNat(n) == [i \in 1..Width64 |-> IF i <= 31 THEN (n \div (2^(i-1))) % 2 ELSE 0]

\* The u64 with exactly the bits of the set S (bit 0 = least significant) set.
FromBits(S) == [i \in 1..Width64 |-> IF (i-1) \in S THEN 1 ELSE 0]

RECURSIVE SumBits(_, _, _)
SumBits(b, lo, hi) ==
    IF lo > hi THEN 0
    ELSE (IF b[lo] = 1 THEN 2^(lo-1) ELSE 0) + SumBits(b, lo+1, hi)

\* Counts and lengths used as loop bounds: every value of 2^24 or more is
\* larger than any input of the model and is represented by Huge.
HugeBit == 24

Huge == 2^HugeBit

ToNat(b) ==
    IF \E i \in (HugeBit+1)..Width64 : b[i] = 1 THEN Huge
    ELSE SumBits(b, 1, HugeBit)

\* value & 0x7F
Low7(b) == SumBits(b, 1, 7)

\* value >> 7
Shr7(b) == [i \in 1..Width64 |-> IF i + 7 <= Width64 THEN b[i+7] ELSE 0]

\* (byte & 0x7F) as u64, shifted left by s < 64: bits shifted past bit 63 are lost
Shl7(byte, s) ==
    [i \in 1..Width64 |->
        IF i - 1 >= s /\ i - 1 < s + 7 THEN ((byte % 128) \div (2^(i-1-s))) % 2 ELSE 0]

\* a | b
Or64(a, b) == [i \in 1..Width64 |-> IF a[i] = 1 \/ b[i] = 1 THEN 1 ELSE 0]

(***************************************************************************)
(* Results of the reading functions: Ok(value, position after) or a        *)
(* failure (one of the TinyVgParseError kinds, or "Panic") with the        *)
(* position the failing read started at and whether it was a read past the *)
(* end of the input.                                                       *)
(***************************************************************************)
Ok(v, p) == [st |-> "Ok", val |-> v, pos |-> p]

Fail(e, p) == [st |-> e, pos |-> p, eof |-> FALSE]

\* A read past the end of the input: Cursor::read_exact leaves the position
\* where it was or moves it to the end of the input, depending on the std
\* version
EofFail(e, p) == [st |-> e, pos |-> p, eof |-> TRUE]

\* The ? operator: r's error is returned, or the code continues with the
\* value read and the position after it
Bind(r, K(_, _)) == IF r.st # "Ok" THEN r ELSE K(r.val, r.pos)

\* cursor.read_u8().map_err(|_| e)
ReadU8(d, p, e) == IF p < Len(d) THEN Ok(d[p+1], p+1) ELSE EofFail(e, p)

(***************************************************************************)
(* common.rs: read_variable_sized_unsigned_number.  A shift amount of 64   *)
(* or more panics when overflow checks are on and is taken modulo 64       *)
(* otherwise.                                                              *)
(***************************************************************************)
RECURSIVE ReadVarIntLoop(_, _, _, _)
ReadVarIntLoop(d, p, count, acc) ==
    LET r == ReadU8(d, p, "InvalidHeader") IN
    IF r.st # "Ok" THEN r
    ELSE IF 7 * count >= Width64 /\ overflow_checks THEN Fail("Panic", p)
    ELSE LET byte == r.val
             val  == Shl7(byte, (7 * count) % Width64)
             res  == Or64(acc, val)
         IN  IF byte < 128 THEN Ok(res, r.pos)
             ELSE ReadVarIntLoop(d, r.pos, count + 1, res)

read_variable_sized_unsigned_number(d, p) == ReadVarIntLoop(d, p, 0, Zero64)

(***************************************************************************)
(* common.rs: write_variable_sized_unsigned_number; the bytes appended.    *)
(***************************************************************************)
RECURSIVE WriteVarIntMinimalityMutant(_)
WriteVarIntMinimalityMutant(value) ==
    LET low  == Low7(value)
        rest == Shr7(value)
    IN  IF low = 0 /\ rest = Zero64 THEN <<0>>
        ELSE <<low + 128>> \o WriteVarIntMinimalityMutant(rest)

RECURSIVE WriteVarIntShiftMutant(_)
WriteVarIntShiftMutant(value) ==
    LET low  == Low7(value)
        rest == [i \in 1..Width64 |-> IF i + 8 <= Width64 THEN value[i+8] ELSE 0]
    IN  IF rest = Zero64 THEN <<low>>
        ELSE <<low + 128>> \o WriteVarIntShiftMutant(rest)

RECURSIVE write_variable_sized_unsigned_number(_)
write_variable_sized_unsigned_number(value) ==
    LET low  == Low7(value)
        rest == Shr7(value)
    IN  IF rest = Zero64 THEN <<low>>
        ELSE <<low + 128>> \o write_variable_sized_unsigned_number(rest)

(***************************************************************************)
(* Signed integers and f64 values of the Unit codec.  A magnitude is a     *)
(* sequence of bits, least significant first, without leading zeros (<<>>  *)
(* is 0); an i64 is [neg, mag]; a finite f64 has neg, mant and exp, the    *)
(* value (-1)^neg * mant / 2^exp in lowest terms.  Every f64 of the model  *)
(* has a mantissa of at most 53 bits, so the f64 arithmetic of             *)
(* read_unit and write_unit (a multiplication or division by a power of    *)
(* two, and round()) is exact.                                             *)
(***************************************************************************)
RECURSIVE MagFromNat(_)
MagFromNat(n) == IF n = 0 THEN <<>> ELSE <<n % 2>> \o MagFromNat(n \div 2)

RECURSIVE Trim(_)
Trim(b) ==
    IF b = <<>> THEN <<>>
    ELSE IF b[Len(b)] = 0 THEN Trim(SubSeq(b, 1, Len(b) - 1))
    ELSE b

Zeros(k) == [i \in 1..k |-> 0]

Ones(k) == [i \in 1..k |-> 1]

\* m * 2^k
MagShl(m, k) == IF m = <<>> THEN <<>> ELSE Zeros(k) \o m

RECURSIVE MagInc(_)
MagInc(m) ==
    IF m = <<>> THEN <<1>>
    ELSE IF m[1] = 0 THEN <<1>> \o Tail(m)
    ELSE <<0>> \o MagInc(Tail(m))

\* m / 2^k rounded to the nearest integer, halves away from zero (f64::round
\* on the magnitude)
MagShrRound(m, k) ==
    IF k = 0 THEN m
    ELSE LET q == IF Len(m) > k THEN SubSeq(m, k + 1, Len(m)) ELSE <<>>
         IN  IF Len(m) >= k /\ m[k] = 1 THEN MagInc(q) ELSE q

MagLess(a, b) ==
    \/ Len(a) < Len(b)
    \/ /\ Len(a) = Len(b)
       /\ \E i \in 1..Len(a) :
            /\ a[i] < b[i]
            /\ \A j \in (i+1)..Len(a) : a[j] = b[j]

I64(neg, mag) == [neg |-> neg /\ mag # <<>>, mag |-> mag]

\* a < b on signed integers
I64Less(a, b) ==
    IF a.neg /\ ~b.neg THEN TRUE
    ELSE IF ~a.neg /\ b.neg THEN FALSE
    ELSE IF a.neg THEN MagLess(b.mag, a.mag)
    ELSE MagLess(a.mag, b.mag)

\* iN::MIN and iN::MAX
IntMin(bits) == I64(TRUE, Zeros(bits - 1) \o <<1>>)

IntMax(bits) == I64(FALSE, Ones(bits - 1))

RECURSIVE F64(_, _, _)
F64(neg, mant, exp) ==
    IF mant = <<>> THEN [class |-> "Finite", neg |-> FALSE, mant |-> <<>>, exp |-> 0]
    ELSE IF exp > 0 /\ mant[1] = 0 THEN F64(neg, Tail(mant), exp - 1)
    ELSE [class |-> "Finite", neg |-> neg, mant |-> mant, exp |-> exp]

NaN == [class |-> "NaN", neg |-> FALSE, mant |-> <<>>, exp |-> 0]

PosInf == [class |-> "Inf", neg |-> FALSE, mant |-> <<>>, exp |-> 0]

NegInf == [class |-> "Inf", neg |-> TRUE, mant |-> <<>>, exp |-> 0]

\* (x as f64) as i64 saturates, and NaN becomes 0
F64RoundToI64(v, scale) ==
    IF v.class = "NaN" THEN I64(FALSE, <<>>)
    ELSE IF v.class = "Inf" THEN (IF v.neg THEN IntMin(64) ELSE IntMax(64))
    ELSE LET mag == IF scale >= v.exp THEN MagShl(v.mant, scale - v.exp)
                    ELSE MagShrRound(v.mant, v.exp - scale)
             x == I64(v.neg, mag)
         IN  IF I64Less(IntMax(64), x) THEN IntMax(64)
             ELSE IF I64Less(x, IntMin(64)) THEN IntMin(64)
             ELSE x

\* The bits of a byte, and of a little-endian byte sequence
Bits8(byte) == [i \in 1..8 |-> (byte \div (2^(i-1))) % 2]

RECURSIVE BitsLE(_)
BitsLE(bytes) == IF bytes = <<>> THEN <<>> ELSE Bits8(Head(bytes)) \o BitsLE(Tail(bytes))

RECURSIVE BytesLE(_)
BytesLE(bits) ==
    IF bits = <<>> THEN <<>>
    ELSE <<SumBits(bits, 1, 8)>> \o BytesLE(SubSeq(bits, 9, Len(bits)))

\* Two's complement negation within the width of b
Invert(b) == [i \in 1..Len(b) |-> 1 - b[i]]

TwosNeg(b) == SubSeq(MagInc(Invert(b)), 1, Len(b))

\* The signed integer a two's complement bit pattern stands for
FromTwos(b) ==
    IF b[Len(b)] = 1 THEN I64(TRUE, Trim(TwosNeg(b))) ELSE I64(FALSE, Trim(b))

\* x as iN: the low `bits` bits of the two's complement pattern of x
ToTwos(x, bits) ==
    LET padded == [i \in 1..bits |-> IF i <= Len(x.mag) THEN x.mag[i] ELSE 0]
    IN  IF x.neg THEN TwosNeg(padded) ELSE padded

(***************************************************************************)
(* header.rs: CoordinateRange, and the width of a Unit in each.            *)
(***************************************************************************)
CoordinateRanges == {"Default", "Reduced", "Enhanced"}

UnitBytes(coordinate_range) ==
    CASE coordinate_range = "Default"  -> 2
      [] coordinate_range = "Reduced"  -> 1
      [] coordinate_range = "Enhanced" -> 4

\* cursor.read_exact of n bytes
ReadExact(d, p, n, e) ==
    IF p + n <= Len(d) THEN Ok(SubSeq(d, p + 1, p + n), p + n) ELSE EofFail(e, p)

(***************************************************************************)
(* common.rs: read_unit.  The scale is the header's 4-bit field, 0..15.    *)
(***************************************************************************)
ReadUnitBigEndianMutant(scale, d, p, coordinate_range) ==
    LET r == ReadExact(d, p, UnitBytes(coordinate_range), "InvalidCommand") IN
    IF r.st # "Ok" THEN r
    ELSE LET rev == [i \in 1..Len(r.val) |-> r.val[Len(r.val) + 1 - i]]
             raw == FromTwos(BitsLE(rev))
         IN  Ok(F64(raw.neg, raw.mag, scale), r.pos)

read_unit(scale, d, p, coordinate_range) ==
    LET r == ReadExact(d, p, UnitBytes(coordinate_range), "InvalidCommand") IN
    IF r.st # "Ok" THEN r
    ELSE LET raw == FromTwos(BitsLE(r.val))
         IN  Ok(F64(raw.neg, raw.mag, scale), r.pos)

(***************************************************************************)
(* common.rs: write_unit; the result and the bytes appended.               *)
(***************************************************************************)
WriteUnitWrapMutant(scale, coordinate_range, value) ==
    LET scaled == F64RoundToI64(value, scale)
        bits   == 8 * UnitBytes(coordinate_range)
    IN  [st |-> "Ok", bytes |-> BytesLE(ToTwos(scaled, bits))]

write_unit(scale, coordinate_range, value) ==
    LET scaled == F64RoundToI64(value, scale)
        bits   == 8 * UnitBytes(coordinate_range)
    IN  IF I64Less(scaled, IntMin(bits)) \/ I64Less(IntMax(bits), scaled)
        THEN [st |-> "InvalidCommand", bytes |-> <<>>]
        ELSE [st |-> "Ok", bytes |-> BytesLE(ToTwos(scaled, bits))]

(***************************************************************************)
(* The VarInt primitives on their own: a value is written, then read back. *)
(***************************************************************************)
MaxVarIntSmall == 300

VarIntValues ==
    {FromNat(n) : n \in 0..MaxVarIntSmall}
    \cup {FromNat(n) : n \in {16383, 16384, 2097151, 2097152}}
    \cup {FromBits({i, j}) : i, j \in 0..(Width64-1)}
    \cup {AllOnes64}

InitVarInt ==
    /\ overflow_checks \in BOOLEAN
    /\ arg \in {[value |-> v] : v \in VarIntValues}
    /\ pc = "varint"
    /\ writer = <<>>
    /\ wresult = None
    /\ data = <<>>
    /\ cursor = 0
    /\ result = None
    /\ header = None
    /\ color_table = <<>>
    /\ draw_commands = <<>>
    /\ tag = None
    /\ model = None

VarIntWrite ==
    /\ pc = "varint"
    /\ writer' = writer \o write_variable_sized_unsigned_number(arg.value)
    /\ wresult' = "Ok"
    /\ pc' = "varint_written"
    /\ UNCHANGED <<overflow_checks, data, cursor, header, color_table,
                   draw_commands, tag, result, model, arg>>

VarIntRead ==
    /\ pc = "varint_written"
    /\ LET r == read_variable_sized_unsigned_number(writer, 0) IN
         /\ data' = writer
         /\ cursor' = r.pos
         /\ result' = r
    /\ pc' = "varint_read"
    /\ UNCHANGED <<overflow_checks, header, color_table, draw_commands, tag,
                   model, writer, wresult, arg>>

NextVarInt == VarIntWrite \/ VarIntRead

SpecVarInt == InitVarInt /\ [][NextVarInt]_vars

\* C3: reading the bytes written for a u64 value returns that value and
\* consumes exactly the bytes that were written.
VarIntRoundTrip ==
    pc = "varint_read" =>
        /\ result.st = "Ok"
        /\ result.val = arg.value
        /\ cursor = Len(writer)

\* A ten-byte VarInt (bit 63 set) has been written and read back.
VarIntRoundTripWitness ==
    /\ pc = "varint_read"
    /\ arg.value = AllOnes64
    /\ Len(writer) = 10
    /\ result.st = "Ok"
    /\ result.val = AllOnes64

\* C4: the encoding has at least one byte, the top bit is set on every byte
\* but the last, the last byte is zero only for the value 0, and 0, 127, 128
\* and 16384 are written as 00, 7F, 80 01 and 80 80 01.
VarIntMinimalEncoding ==
    pc = "varint_written" =>
        /\ Len(writer) >= 1
        /\ \A i \in 1..(Len(writer) - 1) : writer[i] >= 128
        /\ writer[Len(writer)] < 128
        /\ (writer[Len(writer)] = 0 => arg.value = Zero64)
        /\ (arg.value = Zero64 => writer = <<0>>)
        /\ (arg.value = FromNat(127) => writer = <<127>>)
        /\ (arg.value = FromNat(128) => writer = <<128, 1>>)
        /\ (arg.value = FromNat(16384) => writer = <<128, 128, 1>>)

\* 16384 has been written as 80 80 01.
VarIntMinimalEncodingWitness ==
    /\ pc = "varint_written"
    /\ arg.value = FromNat(16384)
    /\ writer = <<128, 128, 1>>

(***************************************************************************)
(* The Unit primitives on their own: either the bytes of a raw integer are *)
(* read and the value is written back, or an f64 value is written.         *)
(***************************************************************************)
MaxScale == 15

Scales == 0..MaxScale

ReducedBytes == 0..255

DefaultBytes == {0, 1, 127, 128, 200, 255}

EnhancedBytes == {0, 127, 128, 255}

UnitDataInputs(coordinate_range) ==
    CASE coordinate_range = "Reduced"  -> {<<>>} \cup {<<a>> : a \in ReducedBytes}
      [] coordinate_range = "Default"  ->
            {<<a>> : a \in DefaultBytes}
            \cup {<<a, b>> : a, b \in DefaultBytes}
      [] coordinate_range = "Enhanced" ->
            {<<a, b, c>> : a, b, c \in EnhancedBytes}
            \cup {<<a, b, c, e>> : a, b, c, e \in EnhancedBytes}

\* Bit i-1 of the natural number n < 2^31
BitOf(n, i) == IF i <= 31 THEN (n \div (2^(i-1))) % 2 ELSE 0

\* The magnitude 2^k + d, for |d| < 2^k
NearPow2(k, d) ==
    IF d >= 0 THEN [i \in 1..k |-> BitOf(d, i)] \o <<1>>
    ELSE Trim([i \in 1..k |-> 1 - BitOf(-d - 1, i)])

MaxFrac == 2

MaxDelta == 3

SmallUnitNums == {0, 1, 2, 3, 25, 100, 200}

UnitValueInputs(scale) ==
    UNION {
        {F64(neg, NearPow2(k + f, d), e) :
            neg \in BOOLEAN, k \in {7, 15, 31},
            d \in (-MaxDelta)..MaxDelta, e \in {f, scale + f}}
        \cup {F64(neg, MagFromNat(n), e) :
            neg \in BOOLEAN, n \in SmallUnitNums, e \in {f, scale + f}}
        : f \in 0..MaxFrac}
    \cup {NaN, PosInf, NegInf}

InitUnit ==
    /\ overflow_checks = FALSE
    /\ \E s \in Scales, cr \in CoordinateRanges :
         \/ /\ data \in UnitDataInputs(cr)
            /\ arg = [scale |-> s, coordinate_range |-> cr, value |-> None]
            /\ pc = "unit_data"
         \/ /\ data = <<>>
            /\ arg \in {[scale |-> s, coordinate_range |-> cr, value |-> v] :
                          v \in UnitValueInputs(s)}
            /\ pc = "unit_value"
    /\ writer = <<>>
    /\ wresult = None
    /\ cursor = 0
    /\ result = None
    /\ header = None
    /\ color_table = <<>>
    /\ draw_commands = <<>>
    /\ tag = None
    /\ model = None

UnitRead ==
    /\ pc = "unit_data"
    /\ LET r == read_unit(arg.scale, data, cursor, arg.coordinate_range) IN
         /\ result' = r
         /\ cursor' = r.pos
    /\ pc' = "unit_read"
    /\ UNCHANGED <<overflow_checks, data, header, color_table, draw_commands,
                   tag, model, writer, wresult, arg>>

UnitWrite ==
    /\ \/ pc = "unit_value"
       \/ pc = "unit_read" /\ result.st = "Ok"
    /\ LET value == IF pc = "unit_value" THEN arg.value ELSE result.val
           w     == write_unit(arg.scale, arg.coordinate_range, value)
       IN  /\ writer' = writer \o w.bytes
           /\ wresult' = w.st
    /\ pc' = IF pc = "unit_value" THEN "unit_written" ELSE "unit_rewritten"
    /\ UNCHANGED <<overflow_checks, data, cursor, header, color_table,
                   draw_commands, tag, result, model, arg>>

NextUnit == UnitRead \/ UnitWrite

SpecUnit == InitUnit /\ [][NextUnit]_vars

\* round(value * 2^scale) lies outside the signed range of `bits` bits:
\* 2 * |value| * 2^scale >= 2^bits - 1 (positive) or >= 2^bits + 1 (negative).
ScaledOutOfRange(value, scale, bits) ==
    IF value.class = "NaN" THEN FALSE
    ELSE IF value.class = "Inf" THEN TRUE
    ELSE LET twice == MagShl(value.mant, scale + 1)
             limit == IF value.neg THEN <<1>> \o Zeros(bits - 1) \o <<1>>
                      ELSE Ones(bits)
         IN  ~MagLess(twice, MagShl(limit, value.exp))

\* C5: when round(value * 2^scale) is outside the signed range of the
\* selected width, write_unit returns InvalidCommand and appends no byte.
UnitOverflowRejected ==
    (pc = "unit_written"
        /\ ScaledOutOfRange(arg.value, arg.scale, 8 * UnitBytes(arg.coordinate_range)))
    => (wresult = "InvalidCommand" /\ writer = <<>>)

\* 200.0 has been rejected at scale 0 in the Reduced range.
UnitOverflowRejectedWitness ==
    /\ pc = "unit_written"
    /\ arg.scale = 0
    /\ arg.coordinate_range = "Reduced"
    /\ arg.value = F64(FALSE, MagFromNat(200), 0)
    /\ wresult = "InvalidCommand"
    /\ writer = <<>>

\* The signed integer of little-endian bytes, as an integer
RECURSIVE SignedLE(_)
SignedLE(bytes) ==
    IF Len(bytes) = 1
    THEN (IF bytes[1] >= 128 THEN bytes[1] - 256 ELSE bytes[1])
    ELSE bytes[1] + 256 * SignedLE(Tail(bytes))

RECURSIVE MagOfInt(_)
MagOfInt(r) ==
    IF r = 0 THEN <<>>
    ELSE IF r > 0 THEN <<r % 2>> \o MagOfInt(r \div 2)
    ELSE IF r % 2 = 0 THEN <<0>> \o MagOfInt(r \div 2)
    ELSE <<1>> \o MagOfInt((r + 1) \div 2)

\* C6: the Unit read from the bytes of a raw integer r is r / 2^scale, and
\* writing it gives back the bytes of r.
UnitRoundTrip ==
    pc = "unit_rewritten" =>
        LET r == SignedLE(data) IN
        /\ result.st = "Ok"
        /\ cursor = Len(data)
        /\ result.val.neg = (r < 0)
        /\ MagShl(result.val.mant, arg.scale) = MagShl(MagOfInt(r), result.val.exp)
        /\ wresult = "Ok"
        /\ writer = data
        /\ (arg.coordinate_range = "Default" /\ arg.scale = 4 /\ data = <<200, 0>>
              => result.val = F64(FALSE, <<1, 0, 0, 1, 1>>, 1))

\* Default, scale 4: the bytes C8 00 have been read as 12.5 and written back.
UnitRoundTripWitness ==
    /\ pc = "unit_rewritten"
    /\ arg.coordinate_range = "Default"
    /\ arg.scale = 4
    /\ data = <<200, 0>>
    /\ result.val = F64(FALSE, <<1, 0, 0, 1, 1>>, 1)
    /\ writer = <<200, 0>>

(***************************************************************************)
(* header.rs: the header.  width and height are u32 values, 32 bits least  *)
(* significant first; color_count is a u64.                                *)
(***************************************************************************)
Width32 == 32

ZeroExtend(bits, width) == [i \in 1..width |-> IF i <= Len(bits) THEN bits[i] ELSE 0]

\* ColorEncoding::from_u8 on a 2-bit value
ColorEncodingFromU8(value) ==
    CASE value = 0 -> "Rgba8888"
      [] value = 1 -> "Rgb565"
      [] value = 2 -> "RgbaF32"
      [] value = 3 -> "Custom"

\* CoordinateRange::from_u8: there is no variant for 3 (unreachable!)
CoordinateRangeFromU8(value) ==
    CASE value = 0 -> "Default"
      [] value = 1 -> "Reduced"
      [] value = 2 -> "Enhanced"
      [] OTHER     -> "Panic"

\* common.rs: read_size; the unsigned width follows the coordinate range
read_size(coordinate_range, d, p) ==
    Bind(ReadExact(d, p, UnitBytes(coordinate_range), "InvalidHeader"),
         LAMBDA bytes, q : Ok(ZeroExtend(BitsLE(bytes), Width32), q))

Magic == <<114, 86>>

\* TinyVgHeader::parse after the magic check: version, packed byte, sizes and
\* color count
ParseHeaderFields(d, p, magic) ==
    Bind(ReadU8(d, p, "InvalidHeader"), LAMBDA version, p1 :
    Bind(ReadU8(d, p1, "InvalidHeader"), LAMBDA scc, p2 :
    IF CoordinateRangeFromU8(scc \div 64) = "Panic" THEN Fail("Panic", p2)
    ELSE
    Bind(read_size(CoordinateRangeFromU8(scc \div 64), d, p2), LAMBDA width, p3 :
    Bind(read_size(CoordinateRangeFromU8(scc \div 64), d, p3), LAMBDA height, p4 :
    Bind(read_variable_sized_unsigned_number(d, p4), LAMBDA color_count, p5 :
    Ok([magic |-> magic,
        version |-> version,
        scale |-> scc % 16,
        color_encoding |-> ColorEncodingFromU8((scc \div 16) % 4),
        coordinate_range |-> CoordinateRangeFromU8(scc \div 64),
        width |-> width,
        height |-> height,
        color_count |-> color_count],
       p5))))))

ParseHeaderMagicLateMutant(d, p) ==
    Bind(ReadExact(d, p, 2, "InvalidHeader"), LAMBDA magic, p1 :
    Bind(ParseHeaderFields(d, p1, magic), LAMBDA h, p2 :
    IF magic[1] # Magic[1] \/ magic[2] # Magic[2] THEN Fail("InvalidHeader", p2)
    ELSE Ok(h, p2)))

TinyVgHeader_parse(d, p) ==
    Bind(ReadExact(d, p, 2, "InvalidHeader"), LAMBDA magic, p1 :
    IF magic[1] # Magic[1] \/ magic[2] # Magic[2] THEN Fail("InvalidHeader", p1)
    ELSE ParseHeaderFields(d, p1, magic))

(***************************************************************************)
(* Vec::with_capacity(n) and vec![0; n] panic ("capacity overflow") when   *)
(* n elements of 2^size_log2 bytes exceed isize::MAX bytes.  A failing     *)
(* allocation below that limit depends on the machine and is not modelled. *)
(***************************************************************************)
CapacityOverflow(n, size_log2) == \E i \in (Width64 - size_log2)..Width64 : n[i] = 1

(***************************************************************************)
(* color_table.rs: parse_color_table.  A channel is an f32: the quotient   *)
(* num/den of the division the code performs, or the four bytes of the     *)
(* little-endian f32 read.                                                 *)
(***************************************************************************)
Ratio(num, den) == [num |-> num, den |-> den]

RawF32(bytes) == [raw |-> bytes]

ParseColorBlueFirstMutant(d, p, color_encoding) ==
    CASE color_encoding = "Rgba8888" ->
            IF p + 4 > Len(d) THEN EofFail("InvalidColorTable", Len(d))
            ELSE Ok(<<Ratio(d[p+3], 255), Ratio(d[p+2], 255),
                      Ratio(d[p+1], 255), Ratio(d[p+4], 255)>>, p + 4)
      [] color_encoding = "Rgb565" ->
            Bind(ReadExact(d, p, 2, "InvalidColorTable"), LAMBDA bytes, q :
            Ok(<<Ratio(((bytes[1] + 256 * bytes[2]) \div 2048) % 32, 31),
                 Ratio(((bytes[1] + 256 * bytes[2]) \div 32) % 64, 63),
                 Ratio((bytes[1] + 256 * bytes[2]) % 32, 31),
                 Ratio(1, 1)>>, q))
      [] color_encoding = "RgbaF32" ->
            Bind(ReadExact(d, p, 16, "InvalidColorTable"), LAMBDA bytes, q :
            Ok(<<RawF32(SubSeq(bytes, 1, 4)), RawF32(SubSeq(bytes, 5, 8)),
                 RawF32(SubSeq(bytes, 9, 12)), RawF32(SubSeq(bytes, 13, 16))>>, q))
      [] color_encoding = "Custom" -> Fail("Panic", p)

ParseColor(d, p, color_encoding) ==
    CASE color_encoding = "Rgba8888" ->
            \* four read_u8 calls: a failing one has consumed what was left
            IF p + 4 > Len(d) THEN EofFail("InvalidColorTable", Len(d))
            ELSE Ok(<<Ratio(d[p+1], 255), Ratio(d[p+2], 255),
                      Ratio(d[p+3], 255), Ratio(d[p+4], 255)>>, p + 4)
      [] color_encoding = "Rgb565" ->
            Bind(ReadExact(d, p, 2, "InvalidColorTable"), LAMBDA bytes, q :
            Ok(<<Ratio((bytes[1] + 256 * bytes[2]) % 32, 31),
                 Ratio(((bytes[1] + 256 * bytes[2]) \div 32) % 64, 63),
                 Ratio(((bytes[1] + 256 * bytes[2]) \div 2048) % 32, 31),
                 Ratio(1, 1)>>, q))
      [] color_encoding = "RgbaF32" ->
            Bind(ReadExact(d, p, 16, "InvalidColorTable"), LAMBDA bytes, q :
            Ok(<<RawF32(SubSeq(bytes, 1, 4)), RawF32(SubSeq(bytes, 5, 8)),
                 RawF32(SubSeq(bytes, 9, 12)), RawF32(SubSeq(bytes, 13, 16))>>, q))
      [] color_encoding = "Custom" -> Fail("Panic", p)

RECURSIVE ParseColors(_, _, _, _)
ParseColors(d, p, color_encoding, n) ==
    IF n = 0 THEN Ok(<<>>, p)
    ELSE IF n = 1 THEN Bind(ParseColor(d, p, color_encoding), LAMBDA v, q : Ok(<<v>>, q))
    ELSE Bind(ParseColors(d, p, color_encoding, n \div 2), LAMBDA front, q :
         Bind(ParseColors(d, q, color_encoding, n - n \div 2), LAMBDA back, r :
         Ok(front \o back, r)))

parse_color_table(d, p, h) ==
    IF CapacityOverflow(h.color_count, 4) THEN Fail("Panic", p)
    ELSE ParseColors(d, p, h.color_encoding, ToNat(h.color_count))

(***************************************************************************)
(* commands.rs: styles, points, rectangles and lines.                      *)
(***************************************************************************)
\* StyleType::from_u8: there is no variant above 2 (unreachable!)
StyleTypeFromU8(value) ==
    CASE value = 0 -> "Flat"
      [] value = 1 -> "Linear"
      [] value = 2 -> "Radial"
      [] OTHER     -> "Panic"

\* CommandType::from_u8: there is no variant above 11 (unreachable!)
CommandTypeFromU8(value) ==
    CASE value = 0  -> "EndOfDocument"
      [] value = 1  -> "FillPolygon"
      [] value = 2  -> "FillRectangles"
      [] value = 3  -> "FillPath"
      [] value = 4  -> "DrawLines"
      [] value = 5  -> "DrawLineLoop"
      [] value = 6  -> "DrawLineStrip"
      [] value = 7  -> "DrawLinePath"
      [] value = 8  -> "OutlineFillPolygon"
      [] value = 9  -> "OutlineFillRectangles"
      [] value = 10 -> "OutlineFillPath"
      [] value = 11 -> "TextHint"
      [] OTHER      -> "Panic"

\* PathCommandType::from_u8 on a 3-bit value
PathCommandTypeFromU8(value) ==
    CASE value = 0 -> "Line"
      [] value = 1 -> "HorizontalLine"
      [] value = 2 -> "VerticalLine"
      [] value = 3 -> "CubicBezier"
      [] value = 4 -> "ArcCircle"
      [] value = 5 -> "ArcEllipse"
      [] value = 6 -> "ClosePath"
      [] value = 7 -> "QuadraticBezier"

ReadUnitH(h, d, p) == read_unit(h.scale, d, p, h.coordinate_range)

\* Point::read_point
read_point(h, d, p) ==
    Bind(ReadUnitH(h, d, p), LAMBDA x, p1 :
    Bind(ReadUnitH(h, d, p1), LAMBDA y, p2 :
    Ok([x |-> x, y |-> y], p2)))

\* Rectangle::read_rectangle, and the same four reads in FillRectangles
read_rectangle(h, d, p) ==
    Bind(ReadUnitH(h, d, p), LAMBDA x, p1 :
    Bind(ReadUnitH(h, d, p1), LAMBDA y, p2 :
    Bind(ReadUnitH(h, d, p2), LAMBDA width, p3 :
    Bind(ReadUnitH(h, d, p3), LAMBDA height, p4 :
    Ok([x |-> x, y |-> y, width |-> width, height |-> height], p4)))))

\* Line::read_line
read_line(h, d, p) ==
    Bind(read_point(h, d, p), LAMBDA start, p1 :
    Bind(read_point(h, d, p1), LAMBDA end, p2 :
    Ok([start |-> start, end |-> end], p2)))

\* FlatColored::read_from_cursor
FlatColored_read(d, p) ==
    Bind(read_variable_sized_unsigned_number(d, p), LAMBDA color_index, q :
    Ok([kind |-> "FlatColor", color_index |-> color_index], q))

\* LinearGradient::read_from_cursor and RadialGradient::read_from_cursor
Gradient_read(kind, h, d, p) ==
    Bind(read_point(h, d, p), LAMBDA point_0, p1 :
    Bind(read_point(h, d, p1), LAMBDA point_1, p2 :
    Bind(read_variable_sized_unsigned_number(d, p2), LAMBDA color_index_0, p3 :
    Bind(read_variable_sized_unsigned_number(d, p3), LAMBDA color_index_1, p4 :
    Ok([kind |-> kind,
        point_0 |-> point_0,
        point_1 |-> point_1,
        color_index_0 |-> color_index_0,
        color_index_1 |-> color_index_1],
       p4)))))

\* Style::read_cursor_using_style_type
read_style(h, d, p, style_type) ==
    CASE style_type = "Flat"   -> FlatColored_read(d, p)
      [] style_type = "Linear" -> Gradient_read("LinearGradient", h, d, p)
      [] style_type = "Radial" -> Gradient_read("RadialGradient", h, d, p)

\* x + 1 on a u64: wraps to 0 from 2^64-1, which panics with overflow checks
Inc64(b) ==
    IF b = AllOnes64 THEN Zero64
    ELSE LET k == CHOOSE i \in 1..Width64 : b[i] = 0 /\ \A j \in 1..(i-1) : b[j] = 1
         IN  [i \in 1..Width64 |-> IF i < k THEN 0 ELSE IF i = k THEN 1 ELSE b[i]]

\* read_variable_sized_unsigned_number(cursor)? + 1
ReadCount(d, p) ==
    Bind(read_variable_sized_unsigned_number(d, p), LAMBDA v, q :
    IF v = AllOnes64 /\ overflow_checks THEN Fail("Panic", q) ELSE Ok(Inc64(v), q))

\* for _ in 0..n { read one item and push it }, n as a natural number: the
\* first half of the items, then the rest from where the first half ended
RECURSIVE ReadPoints(_, _, _, _)
ReadPoints(h, d, p, n) ==
    IF n = 0 THEN Ok(<<>>, p)
    ELSE IF n = 1 THEN Bind(read_point(h, d, p), LAMBDA v, q : Ok(<<v>>, q))
    ELSE Bind(ReadPoints(h, d, p, n \div 2), LAMBDA front, q :
         Bind(ReadPoints(h, d, q, n - n \div 2), LAMBDA back, r :
         Ok(front \o back, r)))

RECURSIVE ReadRectangles(_, _, _, _)
ReadRectangles(h, d, p, n) ==
    IF n = 0 THEN Ok(<<>>, p)
    ELSE IF n = 1 THEN Bind(read_rectangle(h, d, p), LAMBDA v, q : Ok(<<v>>, q))
    ELSE Bind(ReadRectangles(h, d, p, n \div 2), LAMBDA front, q :
         Bind(ReadRectangles(h, d, q, n - n \div 2), LAMBDA back, r :
         Ok(front \o back, r)))

RECURSIVE ReadLines(_, _, _, _)
ReadLines(h, d, p, n) ==
    IF n = 0 THEN Ok(<<>>, p)
    ELSE IF n = 1 THEN Bind(read_line(h, d, p), LAMBDA v, q : Ok(<<v>>, q))
    ELSE Bind(ReadLines(h, d, p, n \div 2), LAMBDA front, q :
         Bind(ReadLines(h, d, q, n - n \div 2), LAMBDA back, r :
         Ok(front \o back, r)))

(***************************************************************************)
(* commands.rs: Path::parse.  An Option<Unit> is <<>> or <<unit>>.         *)
(***************************************************************************)
RECURSIVE ReadSegmentLengths(_, _, _)
ReadSegmentLengths(d, p, n) ==
    IF n = 0 THEN Ok(<<>>, p)
    ELSE IF n = 1 THEN Bind(ReadCount(d, p), LAMBDA v, q : Ok(<<ToNat(v)>>, q))
    ELSE Bind(ReadSegmentLengths(d, p, n \div 2), LAMBDA front, q :
         Bind(ReadSegmentLengths(d, q, n - n \div 2), LAMBDA back, r :
         Ok(front \o back, r)))

\* The payload of one path command, after its tag and optional line width
ReadPathCommandPayload(kind, line_width, h, d, p) ==
    CASE kind = "Line" ->
            Bind(read_point(h, d, p), LAMBDA point, q :
            Ok([kind |-> kind, point |-> point, line_width |-> line_width], q))
      [] kind = "HorizontalLine" ->
            Bind(ReadUnitH(h, d, p), LAMBDA pos_x, q :
            Ok([kind |-> kind, x |-> pos_x, line_width |-> line_width], q))
      [] kind = "VerticalLine" ->
            Bind(ReadUnitH(h, d, p), LAMBDA pos_y, q :
            Ok([kind |-> kind, y |-> pos_y, line_width |-> line_width], q))
      [] kind = "CubicBezier" ->
            Bind(read_point(h, d, p), LAMBDA control_0, p1 :
            Bind(read_point(h, d, p1), LAMBDA control_1, p2 :
            Bind(read_point(h, d, p2), LAMBDA point_1, p3 :
            Ok([kind |-> kind,
                control_point_0 |-> control_0,
                control_point_1 |-> control_1,
                point_1 |-> point_1,
                line_width |-> line_width],
               p3))))
      [] kind = "ArcCircle" ->
            Bind(ReadU8(d, p, "InvalidCommand"), LAMBDA flags, p1 :
            Bind(ReadUnitH(h, d, p1), LAMBDA radius, p2 :
            Bind(read_point(h, d, p2), LAMBDA target, p3 :
            Ok([kind |-> kind,
                large_arc |-> flags % 2 # 0,
                sweep |-> (flags \div 2) % 2 # 0,
                radius |-> radius,
                target |-> target,
                line_width |-> line_width],
               p3))))
      [] kind = "ArcEllipse" ->
            Bind(ReadU8(d, p, "InvalidCommand"), LAMBDA flags, p1 :
            Bind(ReadUnitH(h, d, p1), LAMBDA radius_x, p2 :
            Bind(ReadUnitH(h, d, p2), LAMBDA radius_y, p3 :
            Bind(ReadUnitH(h, d, p3), LAMBDA rotation, p4 :
            Bind(read_point(h, d, p4), LAMBDA target, p5 :
            Ok([kind |-> kind,
                large_arc |-> flags % 2 # 0,
                sweep |-> (flags \div 2) % 2 # 0,
                radius_x |-> radius_x,
                radius_y |-> radius_y,
                rotation |-> rotation,
                target |-> target,
                line_width |-> line_width],
               p5))))))
      [] kind = "ClosePath" -> Ok([kind |-> kind], p)
      [] kind = "QuadraticBezier" ->
            Bind(read_point(h, d, p), LAMBDA control, p1 :
            Bind(read_point(h, d, p1), LAMBDA point_1, p2 :
            Ok([kind |-> kind,
                control_point |-> control,
                point_1 |-> point_1,
                line_width |-> line_width],
               p2)))

ReadPathCommandCloseSkipsWidthMutant(h, d, p) ==
    Bind(ReadU8(d, p, "InvalidCommand"), LAMBDA command_tag, p1 :
    IF (command_tag \div 16) % 2 # 0 /\ command_tag % 8 # 6
    THEN Bind(ReadUnitH(h, d, p1), LAMBDA line_width, p2 :
         ReadPathCommandPayload(PathCommandTypeFromU8(command_tag % 8),
                                <<line_width>>, h, d, p2))
    ELSE ReadPathCommandPayload(PathCommandTypeFromU8(command_tag % 8), <<>>, h, d, p1))

\* One iteration of the inner loop of Path::parse
ReadPathCommand(h, d, p) ==
    Bind(ReadU8(d, p, "InvalidCommand"), LAMBDA command_tag, p1 :
    IF (command_tag \div 16) % 2 # 0
    THEN Bind(ReadUnitH(h, d, p1), LAMBDA line_width, p2 :
         ReadPathCommandPayload(PathCommandTypeFromU8(command_tag % 8),
                                <<line_width>>, h, d, p2))
    ELSE ReadPathCommandPayload(PathCommandTypeFromU8(command_tag % 8), <<>>, h, d, p1))

RECURSIVE ReadPathCommands(_, _, _, _)
ReadPathCommands(h, d, p, n) ==
    IF n = 0 THEN Ok(<<>>, p)
    ELSE IF n = 1 THEN Bind(ReadPathCommand(h, d, p), LAMBDA v, q : Ok(<<v>>, q))
    ELSE Bind(ReadPathCommands(h, d, p, n \div 2), LAMBDA front, q :
         Bind(ReadPathCommands(h, d, q, n - n \div 2), LAMBDA back, r :
         Ok(front \o back, r)))

RECURSIVE ReadSegments(_, _, _, _, _, _)
ReadSegments(h, d, p, counts, lo, hi) ==
    IF lo > hi THEN Ok(<<>>, p)
    ELSE IF lo = hi
         THEN Bind(read_point(h, d, p), LAMBDA start, p1 :
              Bind(ReadPathCommands(h, d, p1, counts[lo]), LAMBDA cmds, p2 :
              Ok(<<[start |-> start, path_commands |-> cmds]>>, p2)))
    ELSE Bind(ReadSegments(h, d, p, counts, lo, (lo + hi) \div 2), LAMBDA front, q :
         Bind(ReadSegments(h, d, q, counts, (lo + hi) \div 2 + 1, hi), LAMBDA back, r :
         Ok(front \o back, r)))

RECURSIVE ReadSegmentsInterleaved(_, _, _, _)
ReadSegmentsInterleaved(h, d, p, n) ==
    IF n = 0 THEN Ok(<<>>, p)
    ELSE Bind(ReadCount(d, p), LAMBDA count, p1 :
         Bind(read_point(h, d, p1), LAMBDA start, p2 :
         Bind(ReadPathCommands(h, d, p2, ToNat(count)), LAMBDA cmds, p3 :
         Bind(ReadSegmentsInterleaved(h, d, p3, n - 1), LAMBDA rest, p4 :
         Ok(<<[start |-> start, path_commands |-> cmds]>> \o rest, p4)))))

PathParseInterleavedMutant(d, p, h, segment_count) ==
    Bind(ReadSegmentsInterleaved(h, d, p, segment_count), LAMBDA segments, q :
    Ok([segments |-> segments], q))

Path_parse(d, p, h, segment_count) ==
    Bind(ReadSegmentLengths(d, p, segment_count), LAMBDA counts, p1 :
    Bind(ReadSegments(h, d, p1, counts, 1, Len(counts)), LAMBDA segments, p2 :
    Ok([segments |-> segments], p2)))

(***************************************************************************)
(* String::from_utf8: whether a byte sequence is well-formed UTF-8.        *)
(***************************************************************************)
IsCont(bytes, i) == i <= Len(bytes) /\ bytes[i] >= 128 /\ bytes[i] <= 191

InRange(bytes, i, lo, hi) == i <= Len(bytes) /\ bytes[i] >= lo /\ bytes[i] <= hi

RECURSIVE ValidUtf8From(_, _)
ValidUtf8From(bytes, i) ==
    IF i > Len(bytes) THEN TRUE
    ELSE IF bytes[i] <= 127 THEN ValidUtf8From(bytes, i + 1)
    ELSE IF bytes[i] >= 194 /\ bytes[i] <= 223
         THEN IsCont(bytes, i + 1) /\ ValidUtf8From(bytes, i + 2)
    ELSE IF bytes[i] >= 224 /\ bytes[i] <= 239
         THEN /\ InRange(bytes, i + 1, IF bytes[i] = 224 THEN 160 ELSE 128,
                         IF bytes[i] = 237 THEN 159 ELSE 191)
              /\ IsCont(bytes, i + 2)
              /\ ValidUtf8From(bytes, i + 3)
    ELSE IF bytes[i] >= 240 /\ bytes[i] <= 244
         THEN /\ InRange(bytes, i + 1, IF bytes[i] = 240 THEN 144 ELSE 128,
                         IF bytes[i] = 244 THEN 143 ELSE 191)
              /\ IsCont(bytes, i + 2)
              /\ IsCont(bytes, i + 3)
              /\ ValidUtf8From(bytes, i + 4)
    ELSE FALSE

ValidUtf8(bytes) == ValidUtf8From(bytes, 1)

(***************************************************************************)
(* commands.rs: parse_draw_commands, the payload of each command.          *)
(***************************************************************************)
\* count_and_sec_style_kind & 0b11_00_00_00: the two bits are not shifted down
SecStyleKind(byte) == (byte \div 64) * 64

\* (count_and_sec_style_kind & 0b00_11_11_11) + 1
SecCount(byte) == (byte % 64) + 1

\* FillPolygon
ParseFillPolygon(style_type, h, d, p) ==
    Bind(ReadCount(d, p), LAMBDA point_count, p1 :
    IF CapacityOverflow(point_count, 4) THEN Fail("Panic", p1)
    ELSE
    Bind(read_style(h, d, p1, style_type), LAMBDA style, p2 :
    Bind(ReadPoints(h, d, p2, ToNat(point_count)), LAMBDA points, p3 :
    Ok([kind |-> "FillPolygon", style |-> style, points |-> points], p3))))

\* FillRectangles
ParseFillRectangles(style_type, h, d, p) ==
    Bind(ReadCount(d, p), LAMBDA rectangle_count, p1 :
    Bind(read_style(h, d, p1, style_type), LAMBDA style, p2 :
    IF CapacityOverflow(rectangle_count, 5) THEN Fail("Panic", p2)
    ELSE
    Bind(ReadRectangles(h, d, p2, ToNat(rectangle_count)), LAMBDA rectangles, p3 :
    Ok([kind |-> "FillRectangles", style |-> style, rectangles |-> rectangles], p3))))

\* FillPath
ParseFillPath(style_type, h, d, p) ==
    Bind(ReadCount(d, p), LAMBDA segment_count, p1 :
    Bind(read_style(h, d, p1, style_type), LAMBDA style, p2 :
    Bind(Path_parse(d, p2, h, ToNat(segment_count)), LAMBDA path, p3 :
    Ok([kind |-> "FillPath", style |-> style, path |-> path], p3))))

\* DrawLines
ParseDrawLines(style_type, h, d, p) ==
    Bind(ReadCount(d, p), LAMBDA line_count, p1 :
    Bind(read_style(h, d, p1, style_type), LAMBDA line_style, p2 :
    Bind(ReadUnitH(h, d, p2), LAMBDA line_width, p3 :
    IF CapacityOverflow(line_count, 5) THEN Fail("Panic", p3)
    ELSE
    Bind(ReadLines(h, d, p3, ToNat(line_count)), LAMBDA lines, p4 :
    Ok([kind |-> "DrawLines", lines |-> lines,
        line_width |-> line_width, line_style |-> line_style], p4)))))

\* DrawLineLoop and DrawLineStrip (the style field is line_style in the first
\* and style in the second)
ParseDrawLinePoints(kind, style_type, h, d, p) ==
    Bind(ReadCount(d, p), LAMBDA point_count, p1 :
    Bind(read_style(h, d, p1, style_type), LAMBDA style, p2 :
    Bind(ReadUnitH(h, d, p2), LAMBDA line_width, p3 :
    IF CapacityOverflow(point_count, 4) THEN Fail("Panic", p3)
    ELSE
    Bind(ReadPoints(h, d, p3, ToNat(point_count)), LAMBDA points, p4 :
    Ok(IF kind = "DrawLineLoop"
       THEN [kind |-> kind, line_style |-> style,
             line_width |-> line_width, points |-> points]
       ELSE [kind |-> kind, style |-> style,
             line_width |-> line_width, points |-> points],
       p4)))))

\* DrawLinePath
ParseDrawLinePath(style_type, h, d, p) ==
    Bind(ReadCount(d, p), LAMBDA segment_count, p1 :
    Bind(read_style(h, d, p1, style_type), LAMBDA style, p2 :
    Bind(ReadUnitH(h, d, p2), LAMBDA line_width, p3 :
    Bind(Path_parse(d, p3, h, ToNat(segment_count)), LAMBDA path, p4 :
    Ok([kind |-> "DrawLinePath", style |-> style,
        line_width |-> line_width, path |-> path], p4)))))

\* OutlineFillPolygon and OutlineFillRectangles: StyleType::from_u8 of the
\* secondary kind is evaluated after the fill style has been read
ParseOutlineFillList(kind, style_type, h, d, p) ==
    Bind(ReadU8(d, p, "InvalidCommand"), LAMBDA count_sec_style_kind, p1 :
    Bind(read_style(h, d, p1, style_type), LAMBDA fill_style, p2 :
    IF StyleTypeFromU8(SecStyleKind(count_sec_style_kind)) = "Panic"
    THEN Fail("Panic", p2)
    ELSE
    Bind(read_style(h, d, p2, StyleTypeFromU8(SecStyleKind(count_sec_style_kind))),
         LAMBDA line_style, p3 :
    Bind(ReadUnitH(h, d, p3), LAMBDA line_width, p4 :
    IF kind = "OutlineFillPolygon"
    THEN Bind(ReadPoints(h, d, p4, SecCount(count_sec_style_kind)),
              LAMBDA points, p5 :
              Ok([kind |-> kind, fill_style |-> fill_style,
                  line_style |-> line_style, line_width |-> line_width,
                  points |-> points], p5))
    ELSE Bind(ReadRectangles(h, d, p4, SecCount(count_sec_style_kind)),
              LAMBDA rectangles, p5 :
              Ok([kind |-> kind, fill_style |-> fill_style,
                  line_style |-> line_style, line_width |-> line_width,
                  rectangles |-> rectangles], p5))))))

\* OutlineFillPath: StyleType::from_u8 of the secondary kind is evaluated
\* before the fill style is read
ParseOutlineFillPath(style_type, h, d, p) ==
    Bind(ReadU8(d, p, "InvalidCommand"), LAMBDA segment_count_and_sec_style_kind, p1 :
    IF StyleTypeFromU8(SecStyleKind(segment_count_and_sec_style_kind)) = "Panic"
    THEN Fail("Panic", p1)
    ELSE
    Bind(read_style(h, d, p1, style_type), LAMBDA fill_style, p2 :
    Bind(read_style(h, d, p2,
                    StyleTypeFromU8(SecStyleKind(segment_count_and_sec_style_kind))),
         LAMBDA line_style, p3 :
    Bind(ReadUnitH(h, d, p3), LAMBDA line_width, p4 :
    Bind(Path_parse(d, p4, h, SecCount(segment_count_and_sec_style_kind)),
         LAMBDA path, p5 :
    Ok([kind |-> "OutlineFillPath", path |-> path,
        fill_style |-> fill_style, line_style |-> line_style,
        line_width |-> line_width], p5))))))

RECURSIVE ReadGlyphOffsets(_, _, _, _)
ReadGlyphOffsets(h, d, p, n) ==
    IF n = 0 THEN Ok(<<>>, p)
    ELSE IF n = 1 THEN Bind(read_point(h, d, p), LAMBDA v, q : Ok(<<<<v.x, v.y>>>>, q))
    ELSE Bind(ReadGlyphOffsets(h, d, p, n \div 2), LAMBDA front, q :
         Bind(ReadGlyphOffsets(h, d, q, n - n \div 2), LAMBDA back, r :
         Ok(front \o back, r)))

\* TextHint
ParseTextHint(h, d, p) ==
    Bind(read_point(h, d, p), LAMBDA center, p1 :
    Bind(ReadUnitH(h, d, p1), LAMBDA rotation, p2 :
    Bind(ReadUnitH(h, d, p2), LAMBDA height, p3 :
    Bind(read_variable_sized_unsigned_number(d, p3), LAMBDA text_length, p4 :
    IF CapacityOverflow(text_length, 0) THEN Fail("Panic", p4)
    ELSE
    Bind(ReadExact(d, p4, ToNat(text_length), "InvalidCommand"), LAMBDA text_buffer, p5 :
    IF ~ValidUtf8(text_buffer) THEN Fail("InvalidCommand", p5)
    ELSE
    Bind(read_variable_sized_unsigned_number(d, p5), LAMBDA glyph_length, p6 :
    IF CapacityOverflow(glyph_length, 4) THEN Fail("Panic", p6)
    ELSE
    Bind(ReadGlyphOffsets(h, d, p6, ToNat(glyph_length)), LAMBDA glyph_offset, p7 :
    Ok([kind |-> "TextHint", center |-> center, text |-> text_buffer,
        rotation |-> rotation, height |-> height,
        glyph_length |-> glyph_length, glyph_offset |-> glyph_offset],
       p7))))))))

\* The match on the command in parse_draw_commands
ParsePayload(command, style_type, h, d, p) ==
    CASE command = "FillPolygon"    -> ParseFillPolygon(style_type, h, d, p)
      [] command = "FillRectangles" -> ParseFillRectangles(style_type, h, d, p)
      [] command = "FillPath"       -> ParseFillPath(style_type, h, d, p)
      [] command = "DrawLines"      -> ParseDrawLines(style_type, h, d, p)
      [] command \in {"DrawLineLoop", "DrawLineStrip"} ->
            ParseDrawLinePoints(command, style_type, h, d, p)
      [] command = "DrawLinePath"   -> ParseDrawLinePath(style_type, h, d, p)
      [] command \in {"OutlineFillPolygon", "OutlineFillRectangles"} ->
            ParseOutlineFillList(command, style_type, h, d, p)
      [] command = "OutlineFillPath" -> ParseOutlineFillPath(style_type, h, d, p)
      [] command = "TextHint"       -> ParseTextHint(h, d, p)

(***************************************************************************)
(* commands.rs: parse_draw_commands, the head of the loop: the tag byte is *)
(* read and split, and the loop is left on EndOfDocument.                  *)
(***************************************************************************)
ReadTagWholeByteTerminatorMutant(d, p) ==
    Bind(ReadU8(d, p, "InvalidCommand"), LAMBDA encoded_command, q :
    IF CommandTypeFromU8(encoded_command % 64) = "Panic" THEN Fail("Panic", q)
    ELSE IF encoded_command = 0
         THEN Ok([command |-> "EndOfDocument", style_type |-> None], q)
    ELSE IF CommandTypeFromU8(encoded_command % 64) = "EndOfDocument"
         THEN Fail("InvalidCommand", q)
    ELSE IF StyleTypeFromU8(encoded_command \div 64) = "Panic" THEN Fail("Panic", q)
    ELSE Ok([command |-> CommandTypeFromU8(encoded_command % 64),
             style_type |-> StyleTypeFromU8(encoded_command \div 64)], q))

ReadTagTerminatorErrorMutant(d, p) ==
    Bind(ReadU8(d, p, "InvalidCommand"), LAMBDA encoded_command, q :
    IF CommandTypeFromU8(encoded_command % 64) = "Panic" THEN Fail("Panic", q)
    ELSE IF CommandTypeFromU8(encoded_command % 64) = "EndOfDocument"
         THEN Fail("InvalidCommand", q)
    ELSE IF StyleTypeFromU8(encoded_command \div 64) = "Panic" THEN Fail("Panic", q)
    ELSE Ok([command |-> CommandTypeFromU8(encoded_command % 64),
             style_type |-> StyleTypeFromU8(encoded_command \div 64)], q))

read_tag(d, p) ==
    Bind(ReadU8(d, p, "InvalidCommand"), LAMBDA encoded_command, q :
    IF CommandTypeFromU8(encoded_command % 64) = "Panic" THEN Fail("Panic", q)
    ELSE IF CommandTypeFromU8(encoded_command % 64) = "EndOfDocument"
         THEN Ok([command |-> "EndOfDocument", style_type |-> None], q)
    ELSE IF StyleTypeFromU8(encoded_command \div 64) = "Panic" THEN Fail("Panic", q)
    ELSE Ok([command |-> CommandTypeFromU8(encoded_command % 64),
             style_type |-> StyleTypeFromU8(encoded_command \div 64)], q))

(***************************************************************************)
(* lib.rs: TinyVg::from_bytes, one action per phase; parse_draw_commands   *)
(* is one action for the head of its loop and one for the payload.         *)
(***************************************************************************)
\* from_bytes returns the error e (or the process panics), the cursor at pos
Return(r) ==
    /\ pc' = "Returned"
    /\ result' = r.st
    /\ cursor' \in (IF r.eof THEN {r.pos, Len(data)} ELSE {r.pos})

ParseHeader ==
    /\ pc = "ParseHeader"
    /\ LET r == TinyVgHeader_parse(data, cursor) IN
         IF r.st = "Ok"
         THEN /\ header' = r.val
              /\ cursor' = r.pos
              /\ pc' = "ParseColorTable"
              /\ UNCHANGED result
         ELSE /\ Return(r)
              /\ UNCHANGED header
    /\ UNCHANGED <<overflow_checks, data, color_table, draw_commands, tag,
                   model, writer, wresult, arg>>

ParseColorTable ==
    /\ pc = "ParseColorTable"
    /\ LET r == parse_color_table(data, cursor, header) IN
         IF r.st = "Ok"
         THEN /\ color_table' = r.val
              /\ cursor' = r.pos
              /\ pc' = "ReadingTag"
              /\ UNCHANGED result
         ELSE /\ Return(r)
              /\ UNCHANGED color_table
    /\ UNCHANGED <<overflow_checks, data, header, draw_commands, tag,
                   model, writer, wresult, arg>>

ReadTag ==
    /\ pc = "ReadingTag"
    /\ LET r == read_tag(data, cursor) IN
         IF r.st = "Ok"
         THEN /\ tag' = r.val
              /\ cursor' = r.pos
              /\ pc' = IF r.val.command = "EndOfDocument" THEN "Terminated"
                       ELSE "DispatchingPayload"
              /\ UNCHANGED result
         ELSE /\ Return(r)
              /\ UNCHANGED tag
    /\ UNCHANGED <<overflow_checks, data, header, color_table, draw_commands,
                   model, writer, wresult, arg>>

DispatchPayload ==
    /\ pc = "DispatchingPayload"
    /\ LET r == ParsePayload(tag.command, tag.style_type, header, data, cursor) IN
         IF r.st = "Ok"
         THEN /\ draw_commands' = Append(draw_commands, r.val)
              /\ cursor' = r.pos
              /\ pc' = "ReadingTag"
              /\ UNCHANGED result
         ELSE /\ Return(r)
              /\ UNCHANGED draw_commands
    /\ UNCHANGED <<overflow_checks, data, header, color_table, tag,
                   model, writer, wresult, arg>>

ReturnDocument ==
    /\ pc = "Terminated"
    /\ pc' = "Returned"
    /\ result' = "Ok"
    /\ UNCHANGED <<overflow_checks, data, cursor, header, color_table,
                   draw_commands, tag, model, writer, wresult, arg>>

FromBytes == ParseHeader \/ ParseColorTable \/ ReadTag \/ DispatchPayload \/ ReturnDocument

(***************************************************************************)
(* svg_to_tvg.rs: the writers.  A writer yields Ok or the error returned   *)
(* (or "Panic"), with the bytes it has appended to the cursor until then.  *)
(***************************************************************************)
WOk(bytes) == [st |-> "Ok", bytes |-> bytes]

WFail(e) == [st |-> e, bytes |-> <<>>]

\* a?; b
Then(a, b) == IF a.st # "Ok" THEN a ELSE [st |-> b.st, bytes |-> a.bytes \o b.bytes]

\* ws[lo]?; ...; ws[hi]?
RECURSIVE WRange(_, _, _)
WRange(ws, lo, hi) ==
    IF lo > hi THEN WOk(<<>>)
    ELSE IF lo = hi THEN ws[lo]
    ELSE Then(WRange(ws, lo, (lo + hi) \div 2), WRange(ws, (lo + hi) \div 2 + 1, hi))

WAll(ws) == WRange(ws, 1, Len(ws))

\* a | b on two u8 values
Or8(a, b) ==
    SumBits([i \in 1..8 |-> IF (a \div 2^(i-1)) % 2 = 1 \/ (b \div 2^(i-1)) % 2 = 1
                            THEN 1 ELSE 0], 1, 8)

\* header.color_encoding as u8
ColorEncodingAsU8(color_encoding) ==
    CASE color_encoding = "Rgba8888" -> 0
      [] color_encoding = "Rgb565"   -> 1
      [] color_encoding = "RgbaF32"  -> 2
      [] color_encoding = "Custom"   -> 3

\* header.coordinate_range as u8
CoordinateRangeAsU8(coordinate_range) ==
    CASE coordinate_range = "Default"  -> 0
      [] coordinate_range = "Reduced"  -> 1
      [] coordinate_range = "Enhanced" -> 2

\* style_type as u8
StyleTypeAsU8(style_type) ==
    CASE style_type = "Flat"   -> 0
      [] style_type = "Linear" -> 1
      [] style_type = "Radial" -> 2

\* command as u8
CommandTypeAsU8(command) ==
    CASE command = "EndOfDocument"         -> 0
      [] command = "FillPolygon"           -> 1
      [] command = "FillRectangles"        -> 2
      [] command = "FillPath"              -> 3
      [] command = "DrawLines"             -> 4
      [] command = "DrawLineLoop"          -> 5
      [] command = "DrawLineStrip"         -> 6
      [] command = "DrawLinePath"          -> 7
      [] command = "OutlineFillPolygon"    -> 8
      [] command = "OutlineFillRectangles" -> 9
      [] command = "OutlineFillPath"       -> 10
      [] command = "TextHint"              -> 11

\* PathCommandType::X as u8
PathCommandTypeAsU8(kind) ==
    CASE kind = "Line"            -> 0
      [] kind = "HorizontalLine"  -> 1
      [] kind = "VerticalLine"    -> 2
      [] kind = "CubicBezier"     -> 3
      [] kind = "ArcCircle"       -> 4
      [] kind = "ArcEllipse"      -> 5
      [] kind = "ClosePath"       -> 6
      [] kind = "QuadraticBezier" -> 7

\* StyleType::from_style: the style type of a style's variant
StyleType_from_style(style) ==
    CASE style.kind = "FlatColor"      -> "Flat"
      [] style.kind = "LinearGradient" -> "Linear"
      [] style.kind = "RadialGradient" -> "Radial"

\* common.rs: write_size; value as u8 and value as u16 keep the low bits
write_size(coordinate_range, value) ==
    WOk(BytesLE(SubSeq(value, 1, 8 * UnitBytes(coordinate_range))))

write_header(h) ==
    WAll(<<WOk(h.magic),
           WOk(<<h.version>>),
           WOk(<<Or8(Or8(h.scale % 16, (ColorEncodingAsU8(h.color_encoding) * 16) % 256),
                     (CoordinateRangeAsU8(h.coordinate_range) * 64) % 256)>>),
           write_size(h.coordinate_range, h.width),
           write_size(h.coordinate_range, h.height),
           WOk(write_variable_sized_unsigned_number(h.color_count))>>)

\* write_f32::<LittleEndian> of the four channels of every color
RECURSIVE WriteColors(_)
WriteColors(colors) ==
    IF colors = <<>> THEN <<>>
    ELSE Head(colors)[1].raw \o Head(colors)[2].raw \o Head(colors)[3].raw
         \o Head(colors)[4].raw \o WriteColors(Tail(colors))

WriteColorTableUncheckedMutant(h, colors) == WOk(WriteColors(colors))

write_color_table(h, colors) ==
    IF h.color_encoding # "RgbaF32" THEN WFail("InvalidColorTable")
    ELSE WOk(WriteColors(colors))

WriteUnitH(h, value) == write_unit(h.scale, h.coordinate_range, value)

write_point(point, h) == Then(WriteUnitH(h, point.x), WriteUnitH(h, point.y))

write_style(h, style) ==
    IF style.kind = "FlatColor"
    THEN WOk(write_variable_sized_unsigned_number(style.color_index))
    ELSE WAll(<<WriteUnitH(h, style.point_0.x),
                WriteUnitH(h, style.point_0.y),
                WriteUnitH(h, style.point_1.x),
                WriteUnitH(h, style.point_1.y),
                WOk(write_variable_sized_unsigned_number(style.color_index_0)),
                WOk(write_variable_sized_unsigned_number(style.color_index_1))>>)

WriteTagShiftFiveMutant(command, style_type) ==
    IF CommandTypeAsU8(command) > 63 THEN WFail("InvalidCommand")
    ELSE WOk(<<Or8((StyleTypeAsU8(style_type) * 32) % 256, CommandTypeAsU8(command) % 64)>>)

write_command_and_primary_style(command, style_type) ==
    IF CommandTypeAsU8(command) > 63 THEN WFail("InvalidCommand")
    ELSE WOk(<<Or8((StyleTypeAsU8(style_type) * 64) % 256, CommandTypeAsU8(command) % 64)>>)

\* the first loop of write_path: the command count of every segment, less one
WriteSegmentLengths(segments) ==
    WAll([i \in 1..Len(segments) |->
            IF Len(segments[i].path_commands) = 0 THEN WFail("InvalidCommand")
            ELSE WOk(write_variable_sized_unsigned_number(
                         FromNat(Len(segments[i].path_commands) - 1)))])

ArcFlags(a) == Or8(IF a.large_arc THEN 1 ELSE 0, IF a.sweep THEN 2 ELSE 0)

\* the second match of write_path: the payload of a path command
WritePathCommandPayload(cmd, h) ==
    CASE cmd.kind = "Line" -> write_point(cmd.point, h)
      [] cmd.kind = "HorizontalLine" -> WriteUnitH(h, cmd.x)
      [] cmd.kind = "VerticalLine" -> WriteUnitH(h, cmd.y)
      [] cmd.kind = "CubicBezier" ->
            WAll(<<write_point(cmd.control_point_0, h),
                   write_point(cmd.control_point_1, h),
                   write_point(cmd.point_1, h)>>)
      [] cmd.kind = "ArcCircle" ->
            WAll(<<WOk(<<ArcFlags(cmd)>>),
                   WriteUnitH(h, cmd.radius),
                   write_point(cmd.target, h)>>)
      [] cmd.kind = "ArcEllipse" ->
            WAll(<<WOk(<<ArcFlags(cmd)>>),
                   WriteUnitH(h, cmd.radius_x),
                   WriteUnitH(h, cmd.radius_y),
                   WriteUnitH(h, cmd.rotation),
                   write_point(cmd.target, h)>>)
      [] cmd.kind = "QuadraticBezier" ->
            Then(write_point(cmd.control_point, h), write_point(cmd.point_1, h))
      [] cmd.kind = "ClosePath" -> WOk(<<>>)

\* ClosePath has no line width
HasLineWidth(cmd) == cmd.kind # "ClosePath" /\ cmd.line_width # <<>>

\* the tag, the optional line width and the payload of a path command
WritePathCommand(cmd, h) ==
    WAll(<<WOk(<<Or8(PathCommandTypeAsU8(cmd.kind) % 8,
                     IF HasLineWidth(cmd) THEN 16 ELSE 0)>>),
           IF HasLineWidth(cmd) THEN WriteUnitH(h, cmd.line_width[1]) ELSE WOk(<<>>),
           WritePathCommandPayload(cmd, h)>>)

WritePathCommands(cmds, h) == WAll([i \in 1..Len(cmds) |-> WritePathCommand(cmds[i], h)])

\* the second loop of write_path
WriteSegments(segments, h) ==
    WAll([i \in 1..Len(segments) |->
            Then(write_point(segments[i].start, h),
                 WritePathCommands(segments[i].path_commands, h))])

write_path(path, h) ==
    Then(WriteSegmentLengths(path.segments), WriteSegments(path.segments, h))

\* segments.len() as u64 - 1, written as a VarInt: the subtraction overflows
\* for an empty path
WriteSegmentCount(path) ==
    IF Len(path.segments) = 0
    THEN IF overflow_checks THEN WFail("Panic")
         ELSE WOk(write_variable_sized_unsigned_number(AllOnes64))
    ELSE WOk(write_variable_sized_unsigned_number(FromNat(Len(path.segments) - 1)))

\* (line_style_type as u8) << 6 | (segments.len() - 1) as u8
WriteSegmentAndStyle(line_style, path) ==
    IF Len(path.segments) = 0
    THEN IF overflow_checks THEN WFail("Panic")
         ELSE WOk(<<Or8((StyleTypeAsU8(StyleType_from_style(line_style)) * 64) % 256, 255)>>)
    ELSE WOk(<<Or8((StyleTypeAsU8(StyleType_from_style(line_style)) * 64) % 256,
                   (Len(path.segments) - 1) % 256)>>)

\* One iteration of the loop of write_draw_commands
WriteDrawCommand(h, command) ==
    CASE command.kind = "FillPath" ->
            WAll(<<write_command_and_primary_style("FillPath",
                                                   StyleType_from_style(command.style)),
                   WriteSegmentCount(command.path),
                   write_style(h, command.style),
                   write_path(command.path, h)>>)
      [] command.kind = "DrawLinePath" ->
            WAll(<<write_command_and_primary_style("DrawLinePath",
                                                   StyleType_from_style(command.style)),
                   WriteSegmentCount(command.path),
                   write_style(h, command.style),
                   WriteUnitH(h, command.line_width),
                   write_path(command.path, h)>>)
      [] command.kind = "OutlineFillPath" ->
            WAll(<<write_command_and_primary_style("OutlineFillPath",
                                                   StyleType_from_style(command.fill_style)),
                   WriteSegmentAndStyle(command.line_style, command.path),
                   write_style(h, command.fill_style),
                   write_style(h, command.line_style),
                   WriteUnitH(h, command.line_width),
                   write_path(command.path, h)>>)
      [] OTHER -> WOk(<<>>)

WriteEndMissingMutant == WOk(<<>>)

write_end == WOk(<<0>>)

(***************************************************************************)
(* Inputs of from_bytes: short byte sequences around the magic, every      *)
(* packed header byte, and command streams after a valid header.           *)
(***************************************************************************)
RECURSIVE Fill(_, _)
Fill(byte, n) == IF n = 0 THEN <<>> ELSE <<byte>> \o Fill(byte, n - 1)

MagicAlphabet == {0, 1, 86, 114}

MagicInputs ==
    {<<>>}
    \cup {<<a>> : a \in MagicAlphabet}
    \cup {<<a, b>> : a, b \in MagicAlphabet}
    \cup {<<a, b, c>> : a, b, c \in MagicAlphabet}
    \cup {<<a, b, c, e>> : a, b, c, e \in MagicAlphabet}
    \cup {<<a, b, 1, 80, 10, 10, 0, 0>> : a, b \in MagicAlphabet}

MaxFill == 14

FillBytes == {0, 1, 3}

SccValues == {scale + 16 * ce + 64 * cr : scale \in {0, 4, 15}, ce \in 0..3, cr \in 0..3}

SccInputs ==
    {Magic \o <<1, scc>> \o Fill(f, n) :
        scc \in SccValues, f \in FillBytes, n \in {0, 2, MaxFill}}

\* Reduced range, scale 0, RGB565, 10 x 10, one color
ReducedHeader == Magic \o <<1, 80, 10, 10, 1, 224, 7>>

TagBytes == {c + 64 * k : c \in (0..12) \cup {63}, k \in 0..3}

SecondBytes == {0, 1, 22, 63, 64, 65, 128, 129, 192, 255}

CommandInputs ==
    {ReducedHeader}
    \cup {ReducedHeader \o <<t>> \o Fill(f, n) :
            t \in TagBytes, f \in FillBytes, n \in {0, MaxFill}}
    \cup {ReducedHeader \o <<t, b>> \o Fill(f, MaxFill) :
            t \in TagBytes, b \in SecondBytes, f \in FillBytes}
    \cup {ReducedHeader \o <<1, 0, 0, 0, 0>> \o <<t>> \o Fill(f, n) :
            t \in TagBytes, f \in FillBytes, n \in {0, MaxFill}}

\* FillPath, one segment of one path command with the tag t
PathTagBytes == {k + 16 * w + 32 * x : k \in 0..7, w \in 0..1, x \in 0..1}

PathInputs ==
    {ReducedHeader \o <<3, 0, 0, 0, 5, 6, t>> \o Fill(f, MaxFill) :
        t \in PathTagBytes, f \in FillBytes}

ColorIndexBytes == {0, 1, 2}

\* FillPolygon of one point after a palette of one color: a flat style with
\* the color index i, or a gradient with the color indices i and j
ColorIndexInputs ==
    {ReducedHeader \o <<1, 0, i, 0, 0, 0>> : i \in ColorIndexBytes}
    \cup {ReducedHeader \o <<1 + 64 * k, 0, 0, 0, 1, 1, i, j, 0, 0, 0>> :
            k \in 1..2, i \in ColorIndexBytes, j \in ColorIndexBytes}

\* a command whose count VarInt is 2^64 - 1 (nine bytes 0xFF and 0x01)
WrappedCountInputs ==
    {ReducedHeader \o <<t>> \o Fill(255, 9) \o <<1>> \o Fill(0, MaxFill) : t \in 1..7}
    \* FillPath of one segment whose length VarInt is 2^64 - 1
    \cup {ReducedHeader \o <<3, 0, 0>> \o Fill(255, 9) \o <<1>> \o Fill(0, MaxFill)}

\* TextHint with center (1, 2), rotation 3 and height 4, then a text length,
\* the text, a glyph count and the glyph offsets, whole or cut short
TextHintTails ==
    {<<>>, <<0>>, <<0, 0, 0>>, <<0, 128>>, <<0, 2, 1, 2, 3>>,
     <<2, 104>>, <<2, 104, 105>>, <<2, 104, 105, 1, 5, 6, 0>>,
     <<1, 255, 0, 0>>, <<2, 195, 40, 0, 0>>,
     <<2, 195, 169, 2, 1, 2, 3, 4, 0>>, <<130>>, <<130, 0>>}

TextHintInputs ==
    {ReducedHeader \o <<11 + 64 * k>> \o SubSeq(<<1, 2, 3, 4>>, 1, n) : k \in 0..2, n \in 0..3}
    \cup {ReducedHeader \o <<11 + 64 * k, 1, 2, 3, 4>> \o t : k \in 0..2, t \in TextHintTails}

DecodeInputs ==
    MagicInputs \cup SccInputs \cup CommandInputs \cup PathInputs \cup ColorIndexInputs
    \cup WrappedCountInputs \cup TextHintInputs

InitDecode ==
    /\ overflow_checks \in BOOLEAN
    /\ data \in DecodeInputs
    /\ cursor = 0
    /\ pc = "ParseHeader"
    /\ header = None
    /\ color_table = <<>>
    /\ draw_commands = <<>>
    /\ tag = None
    /\ result = None
    /\ model = None
    /\ writer = <<>>
    /\ wresult = None
    /\ arg = None

SpecDecode == InitDecode /\ [][FromBytes]_vars

(***************************************************************************)
(* Properties of TinyVg::from_bytes (SpecDecode).                          *)
(***************************************************************************)
\* C2: from_bytes ends with a document or one of the three typed errors; no
\* input drives it into a panic.
NoPanic == result # "Panic"

BadMagic == Len(data) < 2 \/ data[1] # 114 \/ data[2] # 86

\* C7: an input that is shorter than two bytes or does not start with 0x72
\* 0x56 is rejected with InvalidHeader when at most two bytes are consumed, and
\* nothing after the magic is parsed.
MalformedMagicRejected ==
    BadMagic =>
        /\ pc \in {"ParseHeader", "Returned"}
        /\ header = None
        /\ color_table = <<>>
        /\ draw_commands = <<>>
        /\ cursor <= 2
        /\ cursor <= Len(data)
        /\ pc = "Returned" => result = "InvalidHeader"

\* An input that starts 0x72 0x00 and goes on with a valid header has been
\* rejected after its two magic bytes.
MalformedMagicRejectedWitness ==
    /\ pc = "Returned"
    /\ data = <<114, 0, 1, 80, 10, 10, 0, 0>>
    /\ result = "InvalidHeader"
    /\ cursor = 2

\* C8: the command loop starts in ReadingTag with no commands; a tag byte 0x00
\* read in ReadingTag ends it, and from_bytes then returns Ok with exactly the
\* commands decoded before that byte, in stream order; no EndOfDocument entry
\* is ever pushed.
CommandStreamTermination ==
    /\ [][(pc = "ParseColorTable" /\ pc' # "Returned")
            => (pc' = "ReadingTag" /\ draw_commands' = <<>>)]_vars
    /\ [][(pc = "ReadingTag" /\ cursor < Len(data) /\ data[cursor + 1] = 0)
            => (pc' = "Terminated" /\ cursor' = cursor + 1
                /\ draw_commands' = draw_commands)]_vars
    /\ [][pc = "Terminated"
            => (pc' = "Returned" /\ result' = "Ok" /\ draw_commands' = draw_commands)]_vars
    /\ [][(pc = "DispatchingPayload" /\ pc' = "ReadingTag")
            => (/\ Len(draw_commands') = Len(draw_commands) + 1
                /\ SubSeq(draw_commands', 1, Len(draw_commands)) = draw_commands
                /\ draw_commands'[Len(draw_commands')].kind = tag.command)]_vars
    /\ [][(pc # "DispatchingPayload" \/ pc' # "ReadingTag")
            => draw_commands' = draw_commands]_vars
    /\ [](\A i \in 1..Len(draw_commands) : draw_commands[i].kind # "EndOfDocument")

\* A valid header and palette followed only by 0x00 has been decoded to the
\* empty command list.
CommandStreamTerminationWitness ==
    /\ pc = "Returned"
    /\ result = "Ok"
    /\ data = ReducedHeader \o <<0>>
    /\ cursor = Len(data)
    /\ draw_commands = <<>>

OutlineCommands == {"OutlineFillPolygon", "OutlineFillRectangles", "OutlineFillPath"}

StyleKindOf(style_type) ==
    CASE style_type = "Flat"   -> "FlatColor"
      [] style_type = "Linear" -> "LinearGradient"
      [] style_type = "Radial" -> "RadialGradient"

ItemCount(command) ==
    CASE command.kind = "OutlineFillPolygon"    -> Len(command.points)
      [] command.kind = "OutlineFillRectangles" -> Len(command.rectangles)
      [] command.kind = "OutlineFillPath"       -> Len(command.path.segments)

\* C10: for the three outline commands the count is bits 0-5 of the extra
\* byte plus one and the line style is decoded with the kind in bits 6-7 (0, 1
\* or 2) of that byte: the payload does not panic, and a decoded command has a
\* line style of that kind and that many items.
SecondaryStyleDecoded ==
    [][(/\ pc = "DispatchingPayload"
        /\ tag.command \in OutlineCommands
        /\ cursor < Len(data)
        /\ data[cursor + 1] \div 64 \in 0..2)
        => (/\ result' # "Panic"
            /\ pc' = "ReadingTag" =>
                /\ draw_commands'[Len(draw_commands')].line_style.kind
                       = StyleKindOf(StyleTypeFromU8(data[cursor + 1] \div 64))
                /\ ItemCount(draw_commands'[Len(draw_commands')])
                       = (data[cursor + 1] % 64) + 1)]_vars

\* C11: an input whose header selects the Custom color encoding is answered
\* with InvalidColorTable, whatever its color count; no document is returned.
CustomEncodingRejected ==
    [][(pc = "ParseColorTable" /\ header.color_encoding = "Custom")
        => (pc' = "Returned" /\ result' = "InvalidColorTable")]_vars

InvalidTagByte(byte) == byte % 64 \in 12..63 \/ byte \div 64 = 3

\* C12: a tag byte whose command index is in 12..63 or whose primary style
\* kind is 3 ends the decode with InvalidCommand before another command is
\* pushed, and a payload whose secondary style or path command discriminant
\* has no variant ends it with InvalidCommand as well: decoding never panics
\* in the command stream.
InvalidTagRejected ==
    /\ [][(pc = "ReadingTag" /\ cursor < Len(data) /\ InvalidTagByte(data[cursor + 1]))
            => (/\ pc' \in {"Returned", "DispatchingPayload"}
                /\ pc' = "Returned" => result' = "InvalidCommand")]_vars
    /\ [][(pc = "DispatchingPayload" /\ InvalidTagByte(data[cursor]))
            => (pc' = "Returned" /\ result' = "InvalidCommand"
                /\ draw_commands' = draw_commands)]_vars
    /\ [][(pc \in {"ReadingTag", "DispatchingPayload"}) => result' # "Panic"]_vars

\* C13: an input with the magic and a packed byte whose bits 6-7 are 3 is
\* answered with InvalidHeader by the header parser.
UnsupportedRangeRejected ==
    (Len(data) >= 4 /\ ~BadMagic /\ data[4] \div 64 = 3 /\ pc # "ParseHeader")
        => (pc = "Returned" /\ result = "InvalidHeader")

PhaseError(phase) ==
    CASE phase = "ParseHeader"        -> "InvalidHeader"
      [] phase = "ParseColorTable"    -> "InvalidColorTable"
      [] phase = "ReadingTag"         -> "InvalidCommand"
      [] phase = "DispatchingPayload" -> "InvalidCommand"

\* C14: the error from_bytes returns names the phase that failed: InvalidHeader
\* from the header, InvalidColorTable from the palette, InvalidCommand from
\* the command stream.
ErrorKindNamesPhase ==
    [][(pc \in {"ParseHeader", "ParseColorTable", "ReadingTag", "DispatchingPayload"}
        /\ pc' = "Returned" /\ result' # "Panic")
            => result' = PhaseError(pc)]_vars

\* a < b on u64
Less64(a, b) ==
    \E i \in 1..Width64 :
        /\ a[i] = 0
        /\ b[i] = 1
        /\ \A j \in (i+1)..Width64 : a[j] = b[j]

StylesOf(command) ==
    {command[f] : f \in DOMAIN command \cap {"style", "line_style", "fill_style"}}

ColorIndicesOf(style) ==
    IF style.kind = "FlatColor" THEN {style.color_index}
    ELSE {style.color_index_0, style.color_index_1}

\* C15: in a document from_bytes returns, every color index of every style is
\* below header.color_count, the length of the color table.
ColorIndicesInRange ==
    (pc = "Returned" /\ result = "Ok")
        => /\ ToNat(header.color_count) = Len(color_table)
           /\ \A i \in 1..Len(draw_commands) :
                \A style \in StylesOf(draw_commands[i]) :
                    \A index \in ColorIndicesOf(style) :
                        Less64(index, header.color_count)

VarIntCounted ==
    {"FillPolygon", "FillRectangles", "FillPath", "DrawLines", "DrawLineLoop",
     "DrawLineStrip", "DrawLinePath"}

ItemsOf(command) ==
    IF "points" \in DOMAIN command THEN command.points
    ELSE IF "rectangles" \in DOMAIN command THEN command.rectangles
    ELSE IF "lines" \in DOMAIN command THEN command.lines
    ELSE command.path.segments

SegmentsOf(command) ==
    IF "path" \in DOMAIN command THEN command.path.segments ELSE <<>>

\* C23: a decoded command holds one element more than the count stored in its
\* VarInt (or in the low six bits of the extra byte of an outline command),
\* so its list of points, rectangles, lines or segments is not empty, and no
\* segment of a decoded path has an empty list of path commands.
CountsOffsetByOne ==
    [][(pc = "DispatchingPayload" /\ pc' = "ReadingTag"
        /\ tag.command \in VarIntCounted \cup OutlineCommands)
        => (/\ Len(ItemsOf(draw_commands'[Len(draw_commands')])) >= 1
            /\ tag.command \in VarIntCounted =>
                  read_variable_sized_unsigned_number(data, cursor).val
                      = FromNat(Len(ItemsOf(draw_commands'[Len(draw_commands')])) - 1)
            /\ tag.command \in OutlineCommands =>
                  data[cursor + 1] % 64
                      = Len(ItemsOf(draw_commands'[Len(draw_commands')])) - 1
            /\ \A i \in 1..Len(SegmentsOf(draw_commands'[Len(draw_commands')])) :
                  Len(SegmentsOf(draw_commands'[Len(draw_commands')])[i].path_commands) >= 1)]_vars

(***************************************************************************)
(* svg_to_tvg.rs: the four writers in the order svg_to_tvg calls them, one *)
(* action each, and one per command for the loop of write_draw_commands.   *)
(* The bytes written are then given to TinyVg::from_bytes.                 *)
(***************************************************************************)
\* w has appended its bytes; its error ends the encoding
Written(w, next) ==
    /\ writer' = writer \o w.bytes
    /\ IF w.st = "Ok"
       THEN /\ pc' = next
            /\ UNCHANGED wresult
       ELSE /\ pc' = "encode_failed"
            /\ wresult' = w.st

WriteHeader ==
    /\ pc = "write_header"
    /\ Written(write_header(model.header), "write_color_table")
    /\ UNCHANGED <<overflow_checks, data, cursor, header, color_table,
                   draw_commands, tag, result, model, arg>>

WriteColorTable ==
    /\ pc = "write_color_table"
    /\ Written(write_color_table(model.header, model.color_table),
               IF model.draw_commands = <<>> THEN "write_end" ELSE "write_draw_commands")
    /\ arg' = model.draw_commands
    /\ UNCHANGED <<overflow_checks, data, cursor, header, color_table,
                   draw_commands, tag, result, model>>

WriteCommand ==
    /\ pc = "write_draw_commands"
    /\ Written(WriteDrawCommand(model.header, Head(arg)),
               IF Tail(arg) = <<>> THEN "write_end" ELSE "write_draw_commands")
    /\ arg' = Tail(arg)
    /\ UNCHANGED <<overflow_checks, data, cursor, header, color_table,
                   draw_commands, tag, result, model>>

WriteEnd ==
    /\ pc = "write_end"
    /\ writer' = writer \o write_end.bytes
    /\ wresult' = "Ok"
    /\ pc' = "written"
    /\ UNCHANGED <<overflow_checks, data, cursor, header, color_table,
                   draw_commands, tag, result, model, arg>>

\* TinyVg::from_bytes(writer.into_inner())
DecodeWritten ==
    /\ pc = "written"
    /\ data' = writer
    /\ cursor' = 0
    /\ pc' = "ParseHeader"
    /\ UNCHANGED <<overflow_checks, header, color_table, draw_commands, tag,
                   result, model, writer, wresult, arg>>

(***************************************************************************)
(* Documents to encode.  A Unit n/2^e is an f64; a channel of a color is   *)
(* the four bytes of its f32.                                              *)
(***************************************************************************)
U(n) == F64(n < 0, MagFromNat(IF n < 0 THEN -n ELSE n), 0)

\* 1.5
OneAndHalf == F64(FALSE, <<1, 1>>, 1)

Pt(x, y) == [x |-> U(x), y |-> U(y)]

FlatColor(i) == [kind |-> "FlatColor", color_index |-> FromNat(i)]

Gradient(kind, i, j) ==
    [kind |-> kind, point_0 |-> Pt(0, 1), point_1 |-> Pt(5, -2),
     color_index_0 |-> FromNat(i), color_index_1 |-> FromNat(j)]

SampleStyles ==
    <<FlatColor(0), Gradient("LinearGradient", 0, 1), Gradient("RadialGradient", 1, 0),
      FlatColor(1), FlatColor(200)>>

\* every kind of path command, with the line width lw
AllPathCommands(lw) ==
    <<[kind |-> "Line", point |-> Pt(1, 5), line_width |-> lw],
      [kind |-> "HorizontalLine", x |-> U(-2), line_width |-> lw],
      [kind |-> "VerticalLine", y |-> U(5), line_width |-> lw],
      [kind |-> "CubicBezier", control_point_0 |-> Pt(0, 1), control_point_1 |-> Pt(1, 0),
       point_1 |-> Pt(5, 5), line_width |-> lw],
      [kind |-> "ArcCircle", large_arc |-> TRUE, sweep |-> FALSE, radius |-> U(5),
       target |-> Pt(-2, 1), line_width |-> lw],
      [kind |-> "ArcEllipse", large_arc |-> FALSE, sweep |-> TRUE, radius_x |-> U(1),
       radius_y |-> U(5), rotation |-> U(0), target |-> Pt(1, -2), line_width |-> lw],
      [kind |-> "ClosePath"],
      [kind |-> "QuadraticBezier", control_point |-> Pt(5, 0), point_1 |-> Pt(0, 0),
       line_width |-> lw]>>

Segment(start, path_commands) == [start |-> start, path_commands |-> path_commands]

\* a path of n segments of one ClosePath each
ClosedSegments(n) == [segments |-> [i \in 1..n |-> Segment(Pt(i % 100, 0), <<[kind |-> "ClosePath"]>>)]]

\* the most segments the 6-bit count of OutlineFillPath can express
MaxPackedCount == 64

SamplePaths ==
    <<[segments |-> <<Segment(Pt(0, 1), AllPathCommands(<<>>))>>],
      [segments |-> <<Segment(Pt(1, 1), AllPathCommands(<<U(1)>>))>>],
      [segments |-> <<Segment(Pt(0, 0), <<[kind |-> "Line", point |-> Pt(1, 1),
                                           line_width |-> <<>>]>>),
                      Segment(Pt(5, 5), <<[kind |-> "ClosePath"],
                                          [kind |-> "VerticalLine", y |-> U(1),
                                           line_width |-> <<U(5)>>]>>)>>],
      ClosedSegments(MaxPackedCount),
      ClosedSegments(MaxPackedCount + 1),
      [segments |-> <<>>],
      [segments |-> <<Segment(Pt(0, 0), <<>>)>>],
      [segments |-> <<Segment(Pt(0, 0), <<[kind |-> "HorizontalLine", x |-> OneAndHalf,
                                           line_width |-> <<>>]>>)>>],
      [segments |-> <<Segment(Pt(0, 0), <<[kind |-> "HorizontalLine", x |-> U(200),
                                           line_width |-> <<>>]>>)>>]>>

FillPath(style, path) == [kind |-> "FillPath", style |-> style, path |-> path]

DrawLinePath(style, line_width, path) ==
    [kind |-> "DrawLinePath", style |-> style, line_width |-> line_width, path |-> path]

OutlineFillPath(fill_style, line_style, line_width, path) ==
    [kind |-> "OutlineFillPath", path |-> path, fill_style |-> fill_style,
     line_style |-> line_style, line_width |-> line_width]

\* every style on the first three paths, and a flat fill of each other path
FillPathSamples ==
    [i \in 1..(Len(SampleStyles) * 3) |->
        FillPath(SampleStyles[((i - 1) % Len(SampleStyles)) + 1],
                 SamplePaths[((i - 1) \div Len(SampleStyles)) + 1])]
    \o [i \in 1..(Len(SamplePaths) - 3) |-> FillPath(FlatColor(0), SamplePaths[i + 3])]

DrawLinePathSamples ==
    [i \in 1..3 |-> DrawLinePath(SampleStyles[i], U(1), SamplePaths[2])]
    \o <<DrawLinePath(FlatColor(1), U(5), SamplePaths[3]),
         DrawLinePath(FlatColor(1), U(200), SamplePaths[1]),
         DrawLinePath(FlatColor(1), U(5), SamplePaths[6])>>

\* fill and line style of every pair of kinds, and paths of 2, 64, 65 and 0
\* segments
OutlineFillPathSamples ==
    [i \in 1..(3 * 3) |->
        OutlineFillPath(SampleStyles[((i - 1) % 3) + 1],
                        SampleStyles[((i - 1) \div 3) + 1], U(5), SamplePaths[1])]
    \o <<OutlineFillPath(FlatColor(0), FlatColor(1), U(1), SamplePaths[3]),
         OutlineFillPath(FlatColor(0), FlatColor(1), U(1), SamplePaths[4]),
         OutlineFillPath(FlatColor(0), FlatColor(1), U(1), SamplePaths[5]),
         OutlineFillPath(SampleStyles[2], SampleStyles[3], U(1), SamplePaths[5]),
         OutlineFillPath(FlatColor(0), FlatColor(1), U(1), SamplePaths[6]),
         OutlineFillPath(FlatColor(0), SampleStyles[2], U(1), SamplePaths[6])>>

\* the commands write_draw_commands has no code for
OtherSamples ==
    <<[kind |-> "FillPolygon", style |-> FlatColor(0), points |-> <<Pt(0, 0), Pt(1, 1)>>],
      [kind |-> "FillRectangles", style |-> FlatColor(0),
       rectangles |-> <<[x |-> U(0), y |-> U(0), width |-> U(1), height |-> U(1)]>>],
      [kind |-> "DrawLines", lines |-> <<[start |-> Pt(0, 0), end |-> Pt(1, 1)]>>,
       line_width |-> U(1), line_style |-> FlatColor(0)],
      [kind |-> "DrawLineLoop", line_style |-> FlatColor(0), line_width |-> U(1),
       points |-> <<Pt(0, 0)>>],
      [kind |-> "DrawLineStrip", style |-> FlatColor(0), line_width |-> U(1),
       points |-> <<Pt(0, 0)>>],
      [kind |-> "OutlineFillPolygon", fill_style |-> FlatColor(0),
       line_style |-> FlatColor(1), line_width |-> U(1), points |-> <<Pt(0, 0)>>],
      [kind |-> "OutlineFillRectangles", fill_style |-> FlatColor(0),
       line_style |-> FlatColor(1), line_width |-> U(1),
       rectangles |-> <<[x |-> U(0), y |-> U(0), width |-> U(1), height |-> U(1)]>>],
      [kind |-> "TextHint", center |-> Pt(0, 0), text |-> <<104, 105>>,
       rotation |-> U(0), height |-> U(1), glyph_length |-> FromNat(1),
       glyph_offset |-> <<<<U(0), U(1)>>>>]>>

SampleCommands ==
    FillPathSamples \o OutlineFillPathSamples \o DrawLinePathSamples \o OtherSamples

MaxCommands == 2

\* the runs of up to MaxCommands consecutive sample commands
SampleCommandLists ==
    {<<>>} \cup UNION {{SubSeq(SampleCommands, i, i + n - 1) :
                            i \in 1..(Len(SampleCommands) - n + 1)} :
                        n \in 1..MaxCommands}

\* 1.0f32 and 0.5f32, little-endian
SampleColors ==
    <<<<RawF32(<<0, 0, 128, 63>>), RawF32(<<0, 0, 0, 63>>), RawF32(<<0, 0, 0, 0>>),
        RawF32(<<0, 0, 128, 63>>)>>,
      <<RawF32(<<0, 0, 0, 0>>), RawF32(<<0, 0, 0, 0>>), RawF32(<<0, 0, 128, 63>>),
        RawF32(<<0, 0, 0, 63>>)>>>>

SampleHeader(scale, coordinate_range, color_encoding, width, height, colors) ==
    [header |-> [magic |-> Magic,
                 version |-> 1,
                 scale |-> scale,
                 color_encoding |-> color_encoding,
                 coordinate_range |-> coordinate_range,
                 width |-> ZeroExtend(MagFromNat(width), Width32),
                 height |-> ZeroExtend(MagFromNat(height), Width32),
                 \* svg_to_tvg: color_table.len() as u64
                 color_count |-> FromNat(Len(colors))],
     color_table |-> colors]

SampleHeaders ==
    {SampleHeader(0, "Reduced", "RgbaF32", 10, 20, SampleColors),
     SampleHeader(1, "Reduced", "RgbaF32", 300, 20, <<>>),
     SampleHeader(4, "Default", "RgbaF32", 300, 200, SampleColors),
     SampleHeader(15, "Enhanced", "RgbaF32", 70000, 1, SampleColors),
     SampleHeader(4, "Default", "Rgba8888", 10, 10, SampleColors),
     SampleHeader(4, "Default", "Rgb565", 10, 10, <<>>),
     SampleHeader(4, "Default", "Custom", 10, 10, SampleColors)}

Documents ==
    {[header |-> h.header, color_table |-> h.color_table, draw_commands |-> l] :
        h \in SampleHeaders, l \in SampleCommandLists}

Init ==
    /\ overflow_checks \in BOOLEAN
    /\ model \in Documents
    /\ writer = <<>>
    /\ wresult = None
    /\ pc = "write_header"
    /\ data = <<>>
    /\ cursor = 0
    /\ header = None
    /\ color_table = <<>>
    /\ draw_commands = <<>>
    /\ tag = None
    /\ result = None
    /\ arg = None

Next ==
    \/ WriteHeader
    \/ WriteColorTable
    \/ WriteCommand
    \/ WriteEnd
    \/ DecodeWritten
    \/ FromBytes

Spec == Init /\ [][Next]_vars

(***************************************************************************)
(* Properties of the writers and of decoding what they wrote (Spec).       *)
(***************************************************************************)
UnitsOfPoint(point) == {point.x, point.y}

UnitsOfStyle(style) ==
    IF style.kind = "FlatColor" THEN {}
    ELSE UnitsOfPoint(style.point_0) \cup UnitsOfPoint(style.point_1)

UnitsOfPathCommand(cmd) ==
    (IF HasLineWidth(cmd) THEN {cmd.line_width[1]} ELSE {})
    \cup CASE cmd.kind = "Line" -> UnitsOfPoint(cmd.point)
           [] cmd.kind = "HorizontalLine" -> {cmd.x}
           [] cmd.kind = "VerticalLine" -> {cmd.y}
           [] cmd.kind = "CubicBezier" ->
                UnitsOfPoint(cmd.control_point_0) \cup UnitsOfPoint(cmd.control_point_1)
                \cup UnitsOfPoint(cmd.point_1)
           [] cmd.kind = "ArcCircle" -> {cmd.radius} \cup UnitsOfPoint(cmd.target)
           [] cmd.kind = "ArcEllipse" ->
                {cmd.radius_x, cmd.radius_y, cmd.rotation} \cup UnitsOfPoint(cmd.target)
           [] cmd.kind = "QuadraticBezier" ->
                UnitsOfPoint(cmd.control_point) \cup UnitsOfPoint(cmd.point_1)
           [] cmd.kind = "ClosePath" -> {}

UnitsOfPath(path) ==
    UNION {UnitsOfPoint(path.segments[i].start)
           \cup UNION {UnitsOfPathCommand(path.segments[i].path_commands[j]) :
                          j \in 1..Len(path.segments[i].path_commands)} :
           i \in 1..Len(path.segments)}

UnitsOfCommand(command) ==
    CASE command.kind = "FillPath" ->
            UnitsOfStyle(command.style) \cup UnitsOfPath(command.path)
      [] command.kind = "DrawLinePath" ->
            UnitsOfStyle(command.style) \cup {command.line_width}
            \cup UnitsOfPath(command.path)
      [] command.kind = "OutlineFillPath" ->
            UnitsOfStyle(command.fill_style) \cup UnitsOfStyle(command.line_style)
            \cup {command.line_width} \cup UnitsOfPath(command.path)

\* value * 2^scale is an integer of the range's width
Representable(value, h) ==
    /\ value.class = "Finite"
    /\ value.exp <= h.scale
    /\ ~ScaledOutOfRange(value, h.scale, 8 * UnitBytes(h.coordinate_range))

\* A path command of the three kinds the claim is about, with a non-empty path
\* of non-empty segments whose count fits the format, and representable Units
RoundTripCommand(command, h) ==
    /\ command.kind \in {"FillPath", "DrawLinePath", "OutlineFillPath"}
    /\ Len(command.path.segments) >= 1
    /\ \A i \in 1..Len(command.path.segments) :
            Len(command.path.segments[i].path_commands) >= 1
    /\ command.kind = "OutlineFillPath" => Len(command.path.segments) <= MaxPackedCount
    /\ \A u \in UnitsOfCommand(command) : Representable(u, h)

\* C1: decoding the bytes written for a document of FillPath, DrawLinePath and
\* OutlineFillPath commands with representable Units succeeds and yields the
\* same commands in the same order with the same field values.
FullRoundTrip ==
    (/\ pc = "Returned"
     /\ wresult = "Ok"
     /\ \A i \in 1..Len(model.draw_commands) :
            RoundTripCommand(model.draw_commands[i], model.header))
    => (result = "Ok" /\ draw_commands = model.draw_commands)

\* C9: the byte written after the tag byte of an OutlineFillPath command has
\* the discriminant of the line style in its top 2 bits and segment_count - 1
\* in its low 6 bits.
SecondaryStylePacked ==
    [][(/\ pc = "write_draw_commands"
        /\ Head(arg).kind = "OutlineFillPath"
        /\ Len(Head(arg).path.segments) >= 1)
        => (/\ Len(writer') >= Len(writer) + 2
            /\ writer'[Len(writer) + 2] \div 64
                   = StyleTypeAsU8(StyleType_from_style(Head(arg).line_style))
            /\ writer'[Len(writer) + 2] % 64 = Len(Head(arg).path.segments) - 1)]_vars

PrimaryStyles(command) ==
    IF "fill_style" \in DOMAIN command THEN {command.fill_style}
    ELSE IF "style" \in DOMAIN command THEN {command.style}
    ELSE IF "line_style" \in DOMAIN command THEN {command.line_style}
    ELSE {}

DecodedWritten == pc = "Returned" /\ data = writer /\ wresult = "Ok"

\* C16: write_draw_commands writes for every command of the model, in model
\* order, a tag byte holding the command index in bits 0-5 and the primary
\* style kind in bits 6-7, before the payload; the commands decoded from the
\* output are as many as the commands of the model and of the same kinds in
\* the same order.
EncodeCoversEveryCommand ==
    /\ [][(pc = "write_draw_commands" /\ pc' # "encode_failed")
            => (/\ Len(writer') > Len(writer)
                /\ SubSeq(writer', 1, Len(writer)) = writer
                /\ writer'[Len(writer) + 1] % 64 = CommandTypeAsU8(Head(arg).kind)
                /\ \A style \in PrimaryStyles(Head(arg)) :
                      writer'[Len(writer) + 1] \div 64
                          = StyleTypeAsU8(StyleType_from_style(style)))]_vars
    /\ []((DecodedWritten /\ result = "Ok")
            => (/\ Len(draw_commands) = Len(model.draw_commands)
                /\ \A i \in 1..Len(draw_commands) :
                      draw_commands[i].kind = model.draw_commands[i].kind))

EncodingPhases == {"write_header", "write_color_table", "write_draw_commands", "write_end"}

\* C17: a successful encode ends with the terminator: write_end runs once, after
\* every command has been written, appends the single byte 0x00, and nothing
\* is written after it; no other step of the encoder adds a terminator of its
\* own, so between two commands only the bytes of the commands are written.
TerminatorEmittedOnce ==
    /\ [](pc = "written"
            => (wresult = "Ok" /\ writer # <<>> /\ writer[Len(writer)] = 0))
    /\ [][pc = "write_end"
            => (/\ writer' = Append(writer, 0)
                /\ pc' = "written"
                /\ arg \in {<<>>, None} \/ model.draw_commands = <<>>)]_vars
    /\ [][pc \notin EncodingPhases => writer' = writer]_vars
    /\ [][pc = "write_draw_commands"
            => writer' = writer \o WriteDrawCommand(model.header, Head(arg)).bytes]_vars
    /\ [][pc = "write_draw_commands" => pc' \in {"write_draw_commands", "write_end", "encode_failed"}]_vars
    /\ [][(pc = "write_draw_commands" /\ pc' = "write_end") => arg' = <<>>]_vars

\* Two commands have been written and the terminator after them.
TerminatorEmittedOnceWitness ==
    /\ pc = "written"
    /\ wresult = "Ok"
    /\ Len(model.draw_commands) = 2
    /\ model.draw_commands[2].kind = "OutlineFillPath"
    /\ writer[Len(writer)] = 0
    /\ Len(writer) > 20

\* C18: write_color_table fails with InvalidColorTable and writes nothing when
\* the header's color encoding is not RgbaF32; with RgbaF32 it appends 16 bytes
\* per color, the four bytes of r, g, b and a of each color, in palette order.
PaletteEncodeRgbaF32Only ==
    [][pc = "write_color_table"
        => IF model.header.color_encoding # "RgbaF32"
           THEN /\ pc' = "encode_failed"
                /\ wresult' = "InvalidColorTable"
                /\ writer' = writer
           ELSE /\ pc' \in {"write_draw_commands", "write_end"}
                /\ Len(writer') = Len(writer) + 16 * Len(model.color_table)
                /\ SubSeq(writer', 1, Len(writer)) = writer
                /\ \A i \in 1..Len(model.color_table) : \A k \in 1..4 :
                      SubSeq(writer',
                             Len(writer) + 16 * (i - 1) + 4 * (k - 1) + 1,
                             Len(writer) + 16 * (i - 1) + 4 * k)
                          = model.color_table[i][k].raw]_vars

\* write_color_table has refused a palette of two colors under Rgba8888.
PaletteEncodeRgbaF32OnlyWitness ==
    /\ pc = "encode_failed"
    /\ wresult = "InvalidColorTable"
    /\ model.header.color_encoding = "Rgba8888"
    /\ Len(model.color_table) = 2
    /\ Len(writer) = 4 + 2 * UnitBytes(model.header.coordinate_range) + 1

\* C19: TinyVgHeader::parse on the bytes write_header wrote returns a header
\* with the field values of the header written.
HeaderRoundTrip ==
    [][(pc = "ParseHeader" /\ data = writer /\ wresult = "Ok")
        => (pc' = "ParseColorTable" /\ header' = model.header)]_vars

(***************************************************************************)
(* usvg_conversion_utils.rs: set_color, called by the importer for every   *)
(* paint it converts.  The palette is color_table; model is the list of    *)
(* the calls made so far, each with the index it returned.                 *)
(***************************************************************************)
IsNaNF32(bytes) ==
    /\ bytes[4] % 128 = 127
    /\ bytes[3] >= 128
    /\ bytes[3] % 128 # 0 \/ bytes[2] # 0 \/ bytes[1] # 0

IsZeroF32(bytes) == bytes[1] = 0 /\ bytes[2] = 0 /\ bytes[3] = 0 /\ bytes[4] % 128 = 0

\* a == b on f32: two quotients n / 255.0 of bytes are equal when the bytes
\* are; two floats given by their bytes are equal when neither is a NaN and
\* the bytes are the same or both are a zero
F32Eq(a, b) ==
    IF "raw" \in DOMAIN a /\ "raw" \in DOMAIN b
    THEN /\ ~IsNaNF32(a.raw)
         /\ ~IsNaNF32(b.raw)
         /\ a.raw = b.raw \/ (IsZeroF32(a.raw) /\ IsZeroF32(b.raw))
    ELSE "num" \in DOMAIN a /\ "num" \in DOMAIN b /\ a.num = b.num /\ a.den = b.den

\* *color == new_color on RgbaF32: the four fields pairwise
RgbaF32Eq(x, y) == \A k \in 1..4 : F32Eq(x[k], y[k])

\* RgbaF32(red as f32 / 255.0, green as f32 / 255.0, blue as f32 / 255.0, opacity.get())
NewColor(usvg_color, opacity) ==
    <<Ratio(usvg_color.red, 255), Ratio(usvg_color.green, 255),
      Ratio(usvg_color.blue, 255), opacity>>

\* the index of the first entry equal to new_color, or the index of new_color
\* pushed at the end
SetColorNew(table, new_color) ==
    IF \E i \in 1..Len(table) : RgbaF32Eq(table[i], new_color)
    THEN [color_table |-> table,
          index |-> FromNat((CHOOSE i \in 1..Len(table) :
                                /\ RgbaF32Eq(table[i], new_color)
                                /\ \A j \in 1..(i-1) : ~RgbaF32Eq(table[j], new_color)) - 1)]
    ELSE [color_table |-> Append(table, new_color),
          index |-> FromNat(Len(table))]

SetColorAlwaysPushMutant(table, usvg_color, opacity) ==
    [color_table |-> Append(table, NewColor(usvg_color, opacity)),
     index |-> FromNat(Len(table))]

set_color(table, usvg_color, opacity) == SetColorNew(table, NewColor(usvg_color, opacity))

MaxCalls == 3

SampleUsvgColors ==
    {[red |-> 0, green |-> 0, blue |-> 0],
     [red |-> 255, green |-> 0, blue |-> 0],
     [red |-> 255, green |-> 0, blue |-> 1]}

\* 0.0, 0.5 and 1.0
SampleOpacities == {RawF32(<<0, 0, 0, 0>>), RawF32(<<0, 0, 0, 63>>), RawF32(<<0, 0, 128, 63>>)}

SetColor ==
    /\ pc = "set_color"
    /\ Len(model) < MaxCalls
    /\ \E usvg_color \in SampleUsvgColors, opacity \in SampleOpacities :
         /\ arg' = <<usvg_color, opacity>>
         /\ color_table' = set_color(color_table, usvg_color, opacity).color_table
         /\ result' = set_color(color_table, usvg_color, opacity).index
         /\ model' = Append(model, [usvg_color |-> usvg_color,
                                    opacity |-> opacity,
                                    color_index |-> result'])
    /\ UNCHANGED <<overflow_checks, data, cursor, pc, header, draw_commands, tag,
                   writer, wresult>>

InitPalette ==
    /\ overflow_checks = FALSE
    /\ pc = "set_color"
    /\ color_table = <<>>
    /\ model = <<>>
    /\ arg = None
    /\ result = None
    /\ data = <<>>
    /\ cursor = 0
    /\ header = None
    /\ draw_commands = <<>>
    /\ tag = None
    /\ writer = <<>>
    /\ wresult = None

NextPalette == SetColor

SpecPalette == InitPalette /\ [][NextPalette]_vars

\* C20: from an empty palette, after any calls of set_color the palette holds
\* no two equal colors; every call has returned an index below the length of
\* the palette at which the palette holds a color equal to the one asked for;
\* calls with equal colors have returned the same index; and a call leaves
\* the entries already in the palette where and what they were.
PaletteDeduplicated ==
    /\ [](\A i, j \in 1..Len(color_table) :
            i # j => ~RgbaF32Eq(color_table[i], color_table[j]))
    /\ [](\A k \in 1..Len(model) :
            /\ ToNat(model[k].color_index) < Len(color_table)
            /\ RgbaF32Eq(color_table[ToNat(model[k].color_index) + 1],
                         NewColor(model[k].usvg_color, model[k].opacity)))
    /\ [](\A k, l \in 1..Len(model) :
            RgbaF32Eq(NewColor(model[k].usvg_color, model[k].opacity),
                      NewColor(model[l].usvg_color, model[l].opacity))
                => model[k].color_index = model[l].color_index)
    /\ [][/\ Len(color_table') \in {Len(color_table), Len(color_table) + 1}
          /\ SubSeq(color_table', 1, Len(color_table)) = color_table
          /\ result' = model'[Len(model')].color_index
          /\ ToNat(result') < Len(color_table')]_vars

\* Three calls, the third with the color of the first: two palette entries
\* and the first index returned again.
PaletteDeduplicatedWitness ==
    /\ pc = "set_color"
    /\ Len(model) = 3
    /\ Len(color_table) = 2
    /\ model[1].usvg_color = model[3].usvg_color
    /\ model[1].opacity = model[3].opacity
    /\ model[1].color_index = model[3].color_index
    /\ model[2].color_index # model[1].color_index
    /\ result = model[3].color_index

(***************************************************************************)
(* svg_to_tvg.rs: the scale svg_to_tvg chooses from the size of the SVG,   *)
(* and a coordinate of that size written with it.  A u32 is 32 bits, least *)
(* significant first.                                                      *)
(***************************************************************************)
\* a << n on u32, n < 32: the bits shifted past bit 31 are lost
Shl32(a, n) == [i \in 1..Width32 |-> IF i > n THEN a[i - n] ELSE 0]

\* a <= i16::MAX as u32
LeqI16Max(a) == \A i \in 16..Width32 : a[i] = 0

\* width.max(height)
Max32(a, b) == IF MagLess(Trim(a), Trim(b)) THEN b ELSE a

\* while scale_bits < 15 && (coordinate_limit << (scale_bits + 1)) <= i16::MAX as u32
RECURSIVE ScaleBitsLoop(_, _)
ScaleBitsLoop(coordinate_limit, scale_bits) ==
    IF scale_bits < 15 /\ LeqI16Max(Shl32(coordinate_limit, scale_bits + 1))
    THEN ScaleBitsLoop(coordinate_limit, scale_bits + 1)
    ELSE scale_bits

ScaleBits(width, height) == ScaleBitsLoop(Max32(width, height), 0)

\* the header svg_to_tvg builds
ImporterHeader(width, height, colors) ==
    [magic |-> Magic,
     version |-> 1,
     scale |-> ScaleBits(width, height),
     color_encoding |-> "RgbaF32",
     coordinate_range |-> "Default",
     width |-> width,
     height |-> height,
     color_count |-> FromNat(Len(colors))]

SampleSizes ==
    {ZeroExtend(MagFromNat(n), Width32) :
        n \in {0, 1, 2, 3, 100, 1023, 1024, 16383, 16384, 32767, 32768, 40000, 65536}}
    \cup {[i \in 1..Width32 |-> IF i = Width32 THEN 1 ELSE 0],
          [i \in 1..Width32 |-> 1]}

InitScale ==
    /\ overflow_checks \in BOOLEAN
    /\ arg \in {[width |-> w, height |-> h] : w \in SampleSizes, h \in SampleSizes}
    /\ pc = "svg_to_tvg"
    /\ header = None
    /\ color_table = <<>>
    /\ draw_commands = <<>>
    /\ writer = <<>>
    /\ wresult = None
    /\ data = <<>>
    /\ cursor = 0
    /\ tag = None
    /\ result = None
    /\ model = None

ChooseScale ==
    /\ pc = "svg_to_tvg"
    /\ header' = ImporterHeader(arg.width, arg.height, color_table)
    /\ pc' = "scale_chosen"
    /\ UNCHANGED <<overflow_checks, data, cursor, color_table, draw_commands, tag,
                   result, model, writer, wresult, arg>>

\* write_unit of a coordinate on the edge of the document
WriteCoordinate ==
    /\ pc = "scale_chosen"
    /\ \E c \in {arg.width, arg.height} :
         /\ model' = F64(FALSE, Trim(c), 0)
         /\ writer' = write_unit(header.scale, header.coordinate_range, model').bytes
         /\ wresult' = write_unit(header.scale, header.coordinate_range, model').st
    /\ pc' = "coordinate_written"
    /\ UNCHANGED <<overflow_checks, data, cursor, header, color_table, draw_commands,
                   tag, result, arg>>

NextScale == ChooseScale \/ WriteCoordinate

SpecScale == InitScale /\ [][NextScale]_vars

\* C21: the scale svg_to_tvg picks is in 0..15 with the Default range and
\* max(width, height) * 2^scale_bits is at most 32767, so a coordinate as
\* large as the document encodes through write_unit without an error.
ScaleChoiceLossless ==
    /\ pc \in {"scale_chosen", "coordinate_written"}
        => /\ header.scale \in 0..15
           /\ header.coordinate_range = "Default"
           /\ ~MagLess(IntMax(16).mag,
                       MagShl(Trim(Max32(arg.width, arg.height)), header.scale))
    /\ pc = "coordinate_written" => wresult = "Ok"

(***************************************************************************)
(* Palettes of one color, in RGB565 and in RGBA8888, followed by one       *)
(* FillPolygon and the terminator.                                         *)
(***************************************************************************)
ColorBytes == {0, 1, 7, 31, 32, 128, 224, 248, 255}

ChannelBytes == {0, 128, 255}

\* FillPolygon, flat style with the color 0, the point (0, 0); then the end
OnePolygon == <<1, 0, 0, 0, 0, 0>>

ColorInputs ==
    {Magic \o <<1, 80, 10, 10, 1, lo, hi>> \o OnePolygon :
        lo \in ColorBytes, hi \in ColorBytes}
    \cup {Magic \o <<1, 64, 10, 10, 1, r, g, b, a>> \o OnePolygon :
            r \in ChannelBytes, g \in ChannelBytes, b \in ChannelBytes, a \in ChannelBytes}

InitColor ==
    /\ overflow_checks \in BOOLEAN
    /\ data \in ColorInputs
    /\ cursor = 0
    /\ pc = "ParseHeader"
    /\ header = None
    /\ color_table = <<>>
    /\ draw_commands = <<>>
    /\ tag = None
    /\ result = None
    /\ model = None
    /\ writer = <<>>
    /\ wresult = None
    /\ arg = None

SpecColor == InitColor /\ [][FromBytes]_vars

PaletteParsed == pc \in {"ReadingTag", "DispatchingPayload", "Terminated", "Returned"}

\* the 16-bit little-endian value of an RGB565 color of the input
Rgb565Value == data[8] + 256 * data[9]

\* C22: an RGB565 value v decodes to red (v mod 32)/31, green
\* ((v div 32) mod 64)/63, blue ((v div 2048) mod 32)/31 and alpha 1; the
\* four bytes of an RGBA8888 color decode, in the order r, g, b, a, to
\* byte/255; every decoded channel is between 0 and 1.
ColorDecodeExact ==
    PaletteParsed =>
        /\ Len(color_table) = 1
        /\ header.color_encoding = "Rgb565" =>
              color_table[1] = <<Ratio(Rgb565Value % 32, 31),
                                 Ratio((Rgb565Value \div 32) % 64, 63),
                                 Ratio((Rgb565Value \div 2048) % 32, 31),
                                 Ratio(1, 1)>>
        /\ header.color_encoding = "Rgba8888" =>
              color_table[1] = <<Ratio(data[8], 255), Ratio(data[9], 255),
                                 Ratio(data[10], 255), Ratio(data[11], 255)>>
        /\ \A k \in 1..4 :
              /\ 0 <= color_table[1][k].num
              /\ color_table[1][k].num <= color_table[1][k].den

\* 0x07E0 has been decoded to (0, 1, 0, 1).
ColorDecodeExactWitness ==
    /\ pc = "Returned"
    /\ result = "Ok"
    /\ data = Magic \o <<1, 80, 10, 10, 1, 224, 7>> \o OnePolygon
    /\ color_table = <<<<Ratio(0, 31), Ratio(63, 63), Ratio(0, 31), Ratio(1, 1)>>>>

(***************************************************************************)
(* write_path and Path::parse on their own: a path is written and the      *)
(* bytes are parsed again, or the bytes of a path are parsed and the path  *)
(* is written again.  model is the path given to write_path, arg the path  *)
(* Path::parse returned, tag the segment count given to Path::parse.       *)
(***************************************************************************)
MaxSegments == 3

MaxSegmentLength == 3

SegmentLengthProfiles ==
    UNION {[1..n -> 1..MaxSegmentLength] : n \in 1..MaxSegments}

\* a path whose segment i has lens[i] path commands
ProfilePath(lens, lw) ==
    [segments |->
        [i \in 1..Len(lens) |->
            Segment(Pt(i, 0), [k \in 1..lens[i] |-> AllPathCommands(lw)[((i + k) % 8) + 1]])]]

PathHeaders ==
    {SampleHeader(0, "Reduced", "RgbaF32", 10, 20, <<>>).header,
     SampleHeader(4, "Default", "RgbaF32", 300, 200, <<>>).header}

\* one segment starting at (5, 5): one path command with the tag t, or two
\* path commands, the second with the tag f; every other byte is f
PathByteInputs(h) ==
    {<<n>> \o Fill(5, 2 * UnitBytes(h.coordinate_range)) \o <<t>> \o Fill(f, MaxFill) :
        n \in 0..1, t \in PathTagBytes, f \in {0, 1, 2, 22}}

InitPath ==
    /\ overflow_checks \in BOOLEAN
    /\ header \in PathHeaders
    /\ \/ /\ pc = "write_path"
          /\ model \in {ProfilePath(lens, lw) :
                            lens \in SegmentLengthProfiles, lw \in {<<>>, <<U(1)>>}}
          /\ data = <<>>
          /\ tag = None
       \/ /\ pc = "parse_path"
          /\ model = None
          /\ data \in PathByteInputs(header)
          /\ tag = [segment_count |-> 1]
    /\ cursor = 0
    /\ arg = None
    /\ writer = <<>>
    /\ wresult = None
    /\ result = None
    /\ color_table = <<>>
    /\ draw_commands = <<>>

WritePath ==
    /\ pc = "write_path"
    /\ writer' = write_path(model, header).bytes
    /\ wresult' = write_path(model, header).st
    /\ pc' = IF wresult' = "Ok" THEN "path_written" ELSE "write_path_failed"
    /\ UNCHANGED <<overflow_checks, data, cursor, header, color_table, draw_commands,
                   tag, result, model, arg>>

\* Path::parse of the bytes written, with the segment count of the path
ReparsePath ==
    /\ pc = "path_written"
    /\ data' = writer
    /\ tag' = [segment_count |-> Len(model.segments)]
    /\ LET r == Path_parse(writer, 0, header, Len(model.segments)) IN
         /\ result' = r.st
         /\ cursor' = r.pos
         /\ IF r.st = "Ok"
            THEN arg' = r.val /\ pc' = "path_reparsed"
            ELSE arg' = arg /\ pc' = "reparse_failed"
    /\ UNCHANGED <<overflow_checks, header, color_table, draw_commands, model,
                   writer, wresult>>

ParsePath ==
    /\ pc = "parse_path"
    /\ LET r == Path_parse(data, cursor, header, tag.segment_count) IN
         /\ result' = r.st
         /\ cursor' \in (IF r.st # "Ok" /\ r.eof THEN {r.pos, Len(data)} ELSE {r.pos})
         /\ IF r.st = "Ok"
            THEN arg' = r.val /\ pc' = "path_parsed"
            ELSE arg' = arg /\ pc' = "parse_path_failed"
    /\ UNCHANGED <<overflow_checks, data, header, color_table, draw_commands, tag,
                   model, writer, wresult>>

\* write_path of the path Path::parse returned
RewritePath ==
    /\ pc = "path_parsed"
    /\ writer' = write_path(arg, header).bytes
    /\ wresult' = write_path(arg, header).st
    /\ pc' = "path_rewritten"
    /\ UNCHANGED <<overflow_checks, data, cursor, header, color_table, draw_commands,
                   tag, result, model, arg>>

NextPath == WritePath \/ ReparsePath \/ ParsePath \/ RewritePath

SpecPath == InitPath /\ [][NextPath]_vars

\* C24: write_path writes the length of every segment, less one, before the
\* start point of the first segment; Path::parse reads as many lengths as
\* there are segments before the first start point and gives segment i as
\* many path commands as the i-th length says; so parsing what write_path
\* wrote gives the segments of the path with their numbers of path commands,
\* in order.
PathLengthsFirst ==
    /\ [][(pc = "write_path" /\ pc' = "path_written")
            => (/\ \A i \in 1..Len(model.segments) :
                      writer'[i] = Len(model.segments[i].path_commands) - 1
                /\ SubSeq(writer', Len(model.segments) + 1,
                          Len(model.segments) + 2 * UnitBytes(header.coordinate_range))
                      = write_point(model.segments[1].start, header).bytes)]_vars
    /\ [][pc = "path_written"
            => (/\ pc' = "path_reparsed"
                /\ cursor' = Len(data')
                /\ Len(arg'.segments) = Len(model.segments)
                /\ \A i \in 1..Len(model.segments) :
                      /\ Len(arg'.segments[i].path_commands) = data'[i] + 1
                      /\ Len(arg'.segments[i].path_commands)
                            = Len(model.segments[i].path_commands)
                /\ arg'.segments[1].start
                      = read_point(header, data', Len(model.segments)).val)]_vars

\* A path of three segments of 1, 3 and 2 path commands has been written and
\* parsed again.
PathLengthsFirstWitness ==
    /\ pc = "path_reparsed"
    /\ Len(model.segments) = 3
    /\ SubSeq(data, 1, 3) = <<0, 2, 1>>
    /\ Len(arg.segments[1].path_commands) = 1
    /\ Len(arg.segments[2].path_commands) = 3
    /\ Len(arg.segments[3].path_commands) = 2

\* C25: decoding a TextHint reads the center, the rotation, the height, a
\* byte length L, L bytes of text, a glyph count G and G pairs of Units; on
\* success the command holds G glyph offsets and the L bytes read; when the
\* text is not valid UTF-8 or the stream ends early, from_bytes returns
\* InvalidCommand and no TextHint is added.
TextHintGrammar ==
    [][(pc = "DispatchingPayload" /\ tag.command = "TextHint")
        => \/ /\ pc' = "ReadingTag"
              /\ Len(draw_commands') = Len(draw_commands) + 1
              /\ LET c == draw_commands'[Len(draw_commands')]
                     ub == UnitBytes(header.coordinate_range)
                     r1 == read_point(header, data, cursor)
                     r2 == ReadUnitH(header, data, r1.pos)
                     r3 == ReadUnitH(header, data, r2.pos)
                     r4 == read_variable_sized_unsigned_number(data, r3.pos)
                     r5 == read_variable_sized_unsigned_number(data, r4.pos + ToNat(r4.val))
                 IN  /\ c.kind = "TextHint"
                     /\ c.center = r1.val /\ c.rotation = r2.val /\ c.height = r3.val
                     /\ Len(c.text) = ToNat(r4.val)
                     /\ c.text = SubSeq(data, r4.pos + 1, r4.pos + ToNat(r4.val))
                     /\ c.glyph_length = r5.val
                     /\ Len(c.glyph_offset) = ToNat(c.glyph_length)
                     /\ cursor' = r5.pos + 2 * ub * ToNat(r5.val)
           \/ /\ pc' = "Returned"
              /\ result' = "InvalidCommand"
              /\ draw_commands' = draw_commands]_vars

(***************************************************************************)
(* write_command_and_primary_style on its own, and the head of the loop of *)
(* parse_draw_commands on the byte written.  model is the command and the  *)
(* style type given to the writer, tag what the decoder made of the byte.  *)
(***************************************************************************)
DrawCommandTypes ==
    {"FillPolygon", "FillRectangles", "FillPath", "DrawLines", "DrawLineLoop",
     "DrawLineStrip", "DrawLinePath", "OutlineFillPolygon", "OutlineFillRectangles",
     "OutlineFillPath", "TextHint"}

StyleTypes == {"Flat", "Linear", "Radial"}

InitTag ==
    /\ overflow_checks \in BOOLEAN
    /\ model \in [command : DrawCommandTypes, style_type : StyleTypes]
    /\ pc = "write_tag"
    /\ data = <<>>
    /\ cursor = 0
    /\ header = None
    /\ color_table = <<>>
    /\ draw_commands = <<>>
    /\ tag = None
    /\ result = None
    /\ writer = <<>>
    /\ wresult = None
    /\ arg = None

WriteTag ==
    /\ pc = "write_tag"
    /\ writer' = write_command_and_primary_style(model.command, model.style_type).bytes
    /\ wresult' = write_command_and_primary_style(model.command, model.style_type).st
    /\ pc' = IF wresult' = "Ok" THEN "tag_written" ELSE "write_tag_failed"
    /\ UNCHANGED <<overflow_checks, data, cursor, header, color_table, draw_commands,
                   tag, result, model, arg>>

\* the head of the loop of parse_draw_commands on the byte written
ReadWrittenTag ==
    /\ pc = "tag_written"
    /\ data' = writer
    /\ LET r == read_tag(writer, 0) IN
         /\ result' = r.st
         /\ cursor' = r.pos
         /\ IF r.st = "Ok"
            THEN tag' = r.val /\ pc' = "tag_read"
            ELSE tag' = tag /\ pc' = "read_tag_failed"
    /\ UNCHANGED <<overflow_checks, header, color_table, draw_commands, model,
                   writer, wresult, arg>>

NextTag == WriteTag \/ ReadWrittenTag

SpecTag == InitTag /\ [][NextTag]_vars

\* the index of a command and the kind of a style in the TinyVG format
CommandIndex ==
    [c \in DrawCommandTypes |->
        CASE c = "FillPolygon" -> 1 [] c = "FillRectangles" -> 2 [] c = "FillPath" -> 3
          [] c = "DrawLines" -> 4 [] c = "DrawLineLoop" -> 5 [] c = "DrawLineStrip" -> 6
          [] c = "DrawLinePath" -> 7 [] c = "OutlineFillPolygon" -> 8
          [] c = "OutlineFillRectangles" -> 9 [] c = "OutlineFillPath" -> 10
          [] c = "TextHint" -> 11]

StyleKind == [s \in StyleTypes |-> CASE s = "Flat" -> 0 [] s = "Linear" -> 1 [] s = "Radial" -> 2]

\* C26: for every command of index c in 1..11 and every style of kind s in
\* 0..2, write_command_and_primary_style writes the one byte (s << 6) | c,
\* and the decoder splits that byte into the same command (bits 0-5) and
\* the same primary style (bits 6-7).
TagPackUnpack ==
    /\ [][pc = "write_tag"
            => (/\ wresult' = "Ok"
                /\ writer' = <<64 * StyleKind[model.style_type]
                                 + CommandIndex[model.command]>>)]_vars
    /\ [][pc = "tag_written"
            => (/\ pc' = "tag_read"
                /\ cursor' = 1
                /\ tag'.command = model.command
                /\ tag'.style_type = model.style_type
                /\ CommandTypeFromU8(data'[1] % 64) = model.command
                /\ StyleTypeFromU8(data'[1] \div 64) = model.style_type)]_vars

\* OutlineFillPath with a radial gradient: the byte 0x8A, read back
TagPackUnpackWitness ==
    /\ pc = "tag_read"
    /\ model = [command |-> "OutlineFillPath", style_type |-> "Radial"]
    /\ writer = <<138>>
    /\ tag = [command |-> "OutlineFillPath", style_type |-> "Radial"]

\* C27: parse_draw_commands ends with success at the first tag byte whose
\* low 6 bits are 0, whatever its top 2 bits are, and reads no byte after
\* it: from_bytes returns Ok with the cursor just behind that tag, whatever
\* bytes follow.
TerminatorLowSixBits ==
    /\ [][(pc = "ReadingTag" /\ cursor < Len(data) /\ data[cursor + 1] % 64 = 0)
            => (pc' = "Terminated" /\ cursor' = cursor + 1
                /\ draw_commands' = draw_commands)]_vars
    /\ [][pc = "Terminated"
            => (pc' = "Returned" /\ result' = "Ok" /\ cursor' = cursor
                /\ draw_commands' = draw_commands)]_vars
    /\ [][(pc = "ReadingTag" /\ pc' = "Terminated") => data[cursor + 1] % 64 = 0]_vars

\* The tag 0xC0 ended the stream with success, and the bytes after it, which
\* are no command (tag 0xFF), were not read.
TerminatorLowSixBitsWitness ==
    /\ pc = "Returned"
    /\ result = "Ok"
    /\ cursor < Len(data)
    /\ data[cursor] = 192
    /\ data[cursor + 1] = 255

(***************************************************************************)
(* read_variable_sized_unsigned_number on byte sequences that no writer    *)
(* produced: up to MaxContinuation continuation bytes and a last byte.     *)
(***************************************************************************)
MaxContinuation == 11

VarIntByteInputs ==
    {Fill(c, n) \o <<last>> \o Fill(0, 1) :
        c \in {128, 129, 255}, n \in 0..MaxContinuation, last \in {0, 1, 2, 64, 127}}

InitVarIntBytes ==
    /\ overflow_checks \in BOOLEAN
    /\ data \in VarIntByteInputs
    /\ pc = "varint_bytes"
    /\ cursor = 0
    /\ arg = None
    /\ writer = <<>>
    /\ wresult = None
    /\ result = None
    /\ header = None
    /\ color_table = <<>>
    /\ draw_commands = <<>>
    /\ tag = None
    /\ model = None

VarIntReadBytes ==
    /\ pc = "varint_bytes"
    /\ LET r == read_variable_sized_unsigned_number(data, cursor) IN
         /\ cursor' = r.pos
         /\ result' = r.st
         /\ IF r.st = "Ok" THEN arg' = [value |-> r.val] ELSE arg' = arg
    /\ pc' = "varint_bytes_read"
    /\ UNCHANGED <<overflow_checks, data, header, color_table, draw_commands, tag,
                   model, writer, wresult>>

SpecVarIntBytes == InitVarIntBytes /\ [][VarIntReadBytes]_vars

\* C28: for every byte sequence the read shifts each 7-bit group by 7 times
\* its position with a shift amount below 64 (no shift overflow), and every
\* set bit of every group read is a set bit of the number returned, at 7
\* times the position of the group plus its place in the group.
VarIntWithin64Bits ==
    [][pc = "varint_bytes"
        => /\ result' # "Panic"
           /\ result' = "Ok"
                => \A i \in 0..(cursor' - 1) : \A b \in 0..6 :
                      ((data[i + 1] % 128) \div 2^b) % 2 = 1
                          => /\ 7 * i + b < Width64
                             /\ arg'.value[7 * i + b + 1] = 1]_vars

\* the place in data of the tag of the first path command of a path of one
\* segment: behind the segment length and the start point
FirstTagAt == 2 + 2 * UnitBytes(header.coordinate_range)

HasWidthBit(byte) == (byte \div 16) % 2 = 1

\* C29: a path command tag of kind 6 (ClosePath) with bit 4 set makes
\* Path::parse read one Unit behind the tag and drop it: the path command is
\* a plain ClosePath; write_path writes ClosePath as the tag 6 with no Unit,
\* so the bytes written for the decoded path are not the bytes decoded; a
\* path command of any other kind keeps its line width through the decode
\* and the encode.
ClosePathWidthDropped ==
    /\ [][(pc = "parse_path" /\ pc' = "path_parsed"
             /\ data[FirstTagAt] % 8 = 6 /\ HasWidthBit(data[FirstTagAt]))
            => (/\ arg'.segments[1].path_commands[1] = [kind |-> "ClosePath"]
                /\ data[1] = 0
                     => cursor' = FirstTagAt + UnitBytes(header.coordinate_range))]_vars
    /\ [][(pc = "path_parsed" /\ data[FirstTagAt] % 8 = 6)
            => (/\ wresult' = "Ok"
                /\ writer'[FirstTagAt] = 6
                /\ data[1] = 0 => Len(writer') = FirstTagAt
                /\ HasWidthBit(data[FirstTagAt]) => writer' # SubSeq(data, 1, cursor))]_vars
    /\ [][(pc = "path_parsed" /\ data[FirstTagAt] % 8 # 6)
            => (/\ wresult' = "Ok"
                /\ IF HasWidthBit(data[FirstTagAt])
                   THEN /\ arg.segments[1].path_commands[1].line_width
                              = <<ReadUnitH(header, data, FirstTagAt).val>>
                        /\ writer'[FirstTagAt] = 16 + (data[FirstTagAt] % 8)
                        /\ SubSeq(writer', FirstTagAt + 1,
                                  FirstTagAt + UnitBytes(header.coordinate_range))
                              = SubSeq(data, FirstTagAt + 1,
                                       FirstTagAt + UnitBytes(header.coordinate_range))
                   ELSE /\ arg.segments[1].path_commands[1].line_width = <<>>
                        /\ writer'[FirstTagAt] = data[FirstTagAt] % 8)]_vars

\* A path of one ClosePath whose tag 0x16 was followed by a Unit has been
\* decoded and written again: the bytes written end with the tag 6.
ClosePathWidthDroppedWitness ==
    /\ pc = "path_rewritten"
    /\ data[1] = 0
    /\ data[FirstTagAt] = 22
    /\ cursor = FirstTagAt + UnitBytes(header.coordinate_range)
    /\ arg.segments[1].path_commands = <<[kind |-> "ClosePath"]>>
    /\ wresult = "Ok"
    /\ Len(writer) = FirstTagAt
    /\ writer[FirstTagAt] = 6

\* the path of a path command, with no segment or with a segment of no
\* path command
HasEmptySegment(path) ==
    \E i \in 1..Len(path.segments) : Len(path.segments[i].path_commands) = 0

\* C30: encoding a FillPath, DrawLinePath or OutlineFillPath whose path has
\* no segment, or a segment with no path command, does not succeed (no
\* count field is written as count - 1 below zero); for a segment with no
\* path command the error is InvalidCommand.
NonEmptyPathsEnforced ==
    [][(/\ pc = "write_draw_commands"
        /\ Head(arg).kind \in {"FillPath", "DrawLinePath", "OutlineFillPath"}
        /\ (Len(Head(arg).path.segments) = 0 \/ HasEmptySegment(Head(arg).path)))
        => /\ pc' = "encode_failed"
           /\ wresult' # "Ok"
           /\ HasEmptySegment(Head(arg).path) => wresult' = "InvalidCommand"]_vars

====
